---- MODULE Spec2Model ----
(***************************************************************************)
(* A model of plantuml_manipulator: the structural parser (parser.py) and  *)
(* the positional mutator (manipulator.py).                                *)
(*                                                                         *)
(* A text line is a sequence of one-character strings, so that strip(),    *)
(* startswith() and the participant regular expression are computed on the *)
(* characters as Python computes them.  Line numbers are 0-based as in the *)
(* source; the line with Python index k is element k + 1 of a sequence.    *)
(* An Optional[str] is a sequence of length 0 (None) or 1 (the string).    *)
(***************************************************************************)
EXTENDS Integers, Sequences, FiniteSets, TLC

(***************************************************************************)
(* Bounds of the model.                                                    *)
(***************************************************************************)
\* The longest line sequence handed to parse_lines.
MaxLen == 4

(***************************************************************************)
(* Characters and the str methods the source uses.                         *)
(***************************************************************************)
WhitespaceChars == {" ", "\t"}

WordChars ==
    {"a", "b", "c", "d", "e", "f", "g", "h", "i", "j", "k", "l", "m", "n", "o",
     "p", "q", "r", "s", "t", "u", "v", "w", "x", "y", "z",
     "A", "B", "C", "D", "E", "F", "G", "H", "I", "J", "K", "L", "M", "N", "O",
     "P", "Q", "R", "S", "T", "U", "V", "W", "X", "Y", "Z",
     "0", "1", "2", "3", "4", "5", "6", "7", "8", "9", "_"}

SetMin(S) == CHOOSE x \in S : \A y \in S : x <= y

\* The first index j >= k of s whose character is not in C, Len(s) + 1 if there
\* is none: the end of the longest run of characters of C from k.
RECURSIVE RunIn(_, _, _)
RunIn(s, k, C) ==
    IF k > Len(s) \/ s[k] \notin C THEN k ELSE RunIn(s, k + 1, C)

\* The same for the longest run of characters that are not in C.
RECURSIVE RunNotIn(_, _, _)
RunNotIn(s, k, C) ==
    IF k > Len(s) \/ s[k] \in C THEN k ELSE RunNotIn(s, k + 1, C)

\* The last index j <= k of s whose character is not in C, 0 if there is none.
RECURSIVE LastNotIn(_, _, _)
LastNotIn(s, k, C) ==
    IF k = 0 \/ s[k] \notin C THEN k ELSE LastNotIn(s, k - 1, C)

\* str.lstrip()
LStrip(s) == SubSeq(s, RunIn(s, 1, WhitespaceChars), Len(s))

\* str.rstrip()
RStrip(s) == SubSeq(s, 1, LastNotIn(s, Len(s), WhitespaceChars))

\* str.strip()
Strip(s) == LStrip(RStrip(s))

\* str.startswith(p)
StartsWith(s, p) == Len(s) >= Len(p) /\ SubSeq(s, 1, Len(p)) = p

\* The literal p stands in s at index i.
HasAt(s, i, p) == i + Len(p) - 1 <= Len(s) /\ SubSeq(s, i, i + Len(p) - 1) = p

\* s[k:] of a str, for k >= 0.
StrFrom(s, k) == SubSeq(s, k + 1, Len(s))

(***************************************************************************)
(* list slicing and list.insert, with Python's clamping of the index.      *)
(***************************************************************************)
ClampIndex(pos, n) ==
    IF pos < 0 THEN (IF pos + n < 0 THEN 0 ELSE pos + n)
    ELSE (IF pos > n THEN n ELSE pos)

\* l[:pos]
SliceTo(l, pos) == SubSeq(l, 1, ClampIndex(pos, Len(l)))

\* l[pos:]
SliceFrom(l, pos) == SubSeq(l, ClampIndex(pos, Len(l)) + 1, Len(l))

\* A faulty variant of ListInsert: l[pos] = x, the line at pos overwritten.
ListInsert_Overwrite(l, pos, x) ==
    SliceTo(l, pos) \o <<x>> \o SliceFrom(l, pos + 1)

\* l.insert(pos, x)
ListInsert(l, pos, x) == SliceTo(l, pos) \o <<x>> \o SliceFrom(l, pos)

(***************************************************************************)
(* The literals of the source.                                             *)
(***************************************************************************)
StartumlPrefix == <<"@", "s", "t", "a", "r", "t", "u", "m", "l">>

EndumlPrefix == <<"@", "e", "n", "d", "u", "m", "l">>

TitlePrefix == <<"t", "i", "t", "l", "e">>

GroupPrefix == <<"g", "r", "o", "u", "p", " ">>

EndLiteral == <<"e", "n", "d">>

EndGroupLiteral == <<"e", "n", "d", " ", "g", "r", "o", "u", "p">>

ParticipantLiteral == <<"p", "a", "r", "t", "i", "c", "i", "p", "a", "n", "t">>

AsLiteral == <<"a", "s">>

\* ''
EmptyString == <<>>

(***************************************************************************)
(* parser.py: marker classification.                                       *)
(***************************************************************************)
\* A faulty variant of is_group_start: line.startswith("group "), the
\* indentation not stripped.
is_group_start_NoStrip(line) == StartsWith(line, GroupPrefix)

is_group_start(line) == StartsWith(Strip(line), GroupPrefix)

is_group_end(line) == Strip(line) = EndLiteral \/ Strip(line) = EndGroupLiteral

get_indent_level(line) == Len(line) - Len(LStrip(line))

(***************************************************************************)
(* parser.py: the participant pattern                                      *)
(*   ^\s*participant\s+(?:"([^"]+)"|(\S+))\s+as\s+(\w+)(?:\s+#(\w+))?      *)
(* applied with match(), that is anchored at the start and not at the end. *)
(* Every greedy run is followed by an atom that cannot start inside the    *)
(* run, so backtracking into a shorter run never succeeds and each run is  *)
(* the longest one.                                                        *)
(***************************************************************************)
\* A faulty variant of PatternTail: the color group is (#\w+), so the color
\* keeps its '#'.
PatternTail_ColorWithHash(s, k) ==
    LET k2 == RunIn(s, k, WhitespaceChars)
        k3 == RunIn(s, k2 + 2, WhitespaceChars)
        k4 == RunIn(s, k3, WordChars)
        k5 == RunIn(s, k4, WhitespaceChars)
        k6 == RunIn(s, k5 + 1, WordChars)
        ok == /\ k2 > k
              /\ HasAt(s, k2, AsLiteral)
              /\ k3 > k2 + 2
              /\ k4 > k3
        colored == /\ k5 > k4
                   /\ HasAt(s, k5, <<"#">>)
                   /\ k6 > k5 + 1
    IN  IF ~ok THEN [ok |-> FALSE, alias |-> <<>>, color |-> <<>>]
        ELSE [ok |-> TRUE,
              alias |-> SubSeq(s, k3, k4 - 1),
              color |-> IF colored THEN <<SubSeq(s, k5, k6 - 1)>> ELSE <<>>]

\* \s+as\s+(\w+)(?:\s+#(\w+))? from index k of s.
PatternTail(s, k) ==
    LET k2 == RunIn(s, k, WhitespaceChars)
        k3 == RunIn(s, k2 + 2, WhitespaceChars)
        k4 == RunIn(s, k3, WordChars)
        k5 == RunIn(s, k4, WhitespaceChars)
        k6 == RunIn(s, k5 + 1, WordChars)
        ok == /\ k2 > k
              /\ HasAt(s, k2, AsLiteral)
              /\ k3 > k2 + 2
              /\ k4 > k3
        colored == /\ k5 > k4
                   /\ HasAt(s, k5, <<"#">>)
                   /\ k6 > k5 + 1
    IN  IF ~ok THEN [ok |-> FALSE, alias |-> <<>>, color |-> <<>>]
        ELSE [ok |-> TRUE,
              alias |-> SubSeq(s, k3, k4 - 1),
              color |-> IF colored THEN <<SubSeq(s, k5 + 1, k6 - 1)>> ELSE <<>>]

\* pattern.match(line): [matched, name, alias, color].
PatternMatch(line) ==
    LET i0 == RunIn(line, 1, WhitespaceChars)
        i1 == i0 + Len(ParticipantLiteral)
        i2 == RunIn(line, i1, WhitespaceChars)
        head == HasAt(line, i0, ParticipantLiteral) /\ i2 > i1 /\ i2 <= Len(line)
        \* alternative 1: "([^"]+)"
        q  == RunNotIn(line, i2 + 1, {"\""})
        quoted == /\ head
                  /\ line[i2] = "\""
                  /\ q > i2 + 1
                  /\ q <= Len(line)
        tail1 == PatternTail(line, q + 1)
        \* alternative 2: (\S+)
        e  == RunNotIn(line, i2, WhitespaceChars)
        tail2 == PatternTail(line, e)
        none == [matched |-> FALSE, name |-> <<>>, alias |-> <<>>, color |-> <<>>]
    IN  IF ~head THEN none
        ELSE IF quoted /\ tail1.ok
        THEN [matched |-> TRUE, name |-> SubSeq(line, i2 + 1, q - 1),
              alias |-> tail1.alias, color |-> tail1.color]
        ELSE IF tail2.ok
        THEN [matched |-> TRUE, name |-> SubSeq(line, i2, e - 1),
              alias |-> tail2.alias, color |-> tail2.color]
        ELSE none

\* The Participant of the line with index i.
MakeParticipant(i, line) ==
    LET m == PatternMatch(line)
    IN  [name |-> m.name, alias |-> m.alias, color |-> m.color,
         line_number |-> i, raw_line |-> line]

RECURSIVE FindParticipantsFrom(_, _)
FindParticipantsFrom(ls, i) ==
    IF i >= Len(ls) THEN <<>>
    ELSE (IF PatternMatch(ls[i + 1]).matched
          THEN <<MakeParticipant(i, ls[i + 1])>>
          ELSE <<>>) \o FindParticipantsFrom(ls, i + 1)

find_participants(ls) == FindParticipantsFrom(ls, 0)

(***************************************************************************)
(* parser.py: find_groups, one loop iteration at a time.                   *)
(***************************************************************************)
\* A faulty variant of GroupName: stripped[6:], the remainder taken as it is.
GroupName_Raw(line) == StrFrom(Strip(line), 6)

\* group_name = stripped[6:].strip()
GroupName(line) == Strip(StrFrom(Strip(line), 6))

\* A faulty variant of GroupInfo: 'start_line': i + 1, the line counted from 1.
GroupInfo_OneBased(i, line) ==
    [name |-> GroupName(line), start_line |-> i + 1,
     indent_level |-> get_indent_level(line), content |-> <<>>]

\* The record pushed for a group-start line.
GroupInfo(i, line) ==
    [name |-> GroupName(line), start_line |-> i,
     indent_level |-> get_indent_level(line), content |-> <<>>]

\* A faulty variant of StackPop: group_stack[-1], the group read but left on
\* the stack.
StackPop_Peek(stack) ==
    [info |-> stack[Len(stack)], rest |-> stack]

\* A faulty variant of StackPop: group_stack.pop(0), the oldest open group taken.
StackPop_Oldest(stack) ==
    [info |-> stack[1], rest |-> SubSeq(stack, 2, Len(stack))]

\* group_stack.pop(): the record taken, and what is left of the stack.
StackPop(stack) ==
    [info |-> stack[Len(stack)], rest |-> SubSeq(stack, 1, Len(stack) - 1)]

\* The Group built from a popped record on the end line with index i.
MakeGroup(info, i) ==
    [name |-> info.name, start_line |-> info.start_line, end_line |-> i,
     content |-> info.content, indent_level |-> info.indent_level]

\* A faulty variant of StackAddContent: the line is added to the content of
\* every open group.
StackAddContent_AllOpen(stack, line) ==
    [k \in 1..Len(stack) |-> [stack[k] EXCEPT !.content = Append(@, line)]]

\* group_stack[-1]['content'].append(line)
StackAddContent(stack, line) ==
    [stack EXCEPT ![Len(stack)].content = Append(@, line)]

\* A faulty variant of EndBranch: the stack is popped without the test
\* `if group_stack:`, and list.pop() of an empty list raises IndexError.
EndBranch_Unguarded(gs, stack, k) ==
    IF stack = <<>>
    THEN [raised |-> "IndexError", groups |-> gs, group_stack |-> stack]
    ELSE [raised |-> "none",
          groups |-> Append(gs, MakeGroup(StackPop(stack).info, k)),
          group_stack |-> StackPop(stack).rest]

\* A faulty variant of EndBranch: an end line read with no group open emits a
\* group of its own.
EndBranch_StrayEmits(gs, stack, k) ==
    IF stack = <<>>
    THEN [raised |-> "none",
          groups |-> Append(gs, MakeGroup(GroupInfo(k, EmptyString), k)),
          group_stack |-> stack]
    ELSE [raised |-> "none",
          groups |-> Append(gs, MakeGroup(StackPop(stack).info, k)),
          group_stack |-> StackPop(stack).rest]

\* The branch of a group-end line with index k: groups and group_stack after
\* it, and the exception it raised ("none": it raises nothing).
\*   if group_stack: group_info = group_stack.pop(); ...; groups.append(group)
EndBranch(gs, stack, k) ==
    IF stack # <<>>
    THEN [raised |-> "none",
          groups |-> Append(gs, MakeGroup(StackPop(stack).info, k)),
          group_stack |-> StackPop(stack).rest]
    ELSE [raised |-> "none", groups |-> gs, group_stack |-> stack]

\* A faulty variant of FindGroupsReturn: the groups still open at the end of
\* the input are closed at its last line and returned too.
FindGroupsReturn_Flush(gs, stack) ==
    gs \o [k \in 1..Len(stack) |-> MakeGroup(stack[Len(stack) + 1 - k], -1)]

\* return groups: what is left on group_stack is dropped.
FindGroupsReturn(gs, stack) == gs

\* find_groups as a whole: the loop from the line with index k on.
RECURSIVE FindGroupsLoop(_, _, _, _)
FindGroupsLoop(ls, k, gs, stack) ==
    IF k >= Len(ls) THEN FindGroupsReturn(gs, stack)
    ELSE LET line == ls[k + 1]
         IN  IF is_group_start(line)
             THEN FindGroupsLoop(ls, k + 1, gs, Append(stack, GroupInfo(k, line)))
             ELSE IF is_group_end(line)
             THEN FindGroupsLoop(ls, k + 1, EndBranch(gs, stack, k).groups,
                                 EndBranch(gs, stack, k).group_stack)
             ELSE IF stack # <<>>
             THEN FindGroupsLoop(ls, k + 1, gs, StackAddContent(stack, line))
             ELSE FindGroupsLoop(ls, k + 1, gs, stack)

find_groups(ls) == FindGroupsLoop(ls, 0, <<>>, <<>>)

has_tag(ls, prefix) == \E k \in 1..Len(ls) : StartsWith(Strip(ls[k]), prefix)

\* A faulty variant of MakeStructure: raw_lines holds the lines with their
\* trailing whitespace stripped.
MakeStructure_Stripped(ls, gs) ==
    [participants |-> find_participants(ls),
     groups |-> gs,
     raw_lines |-> [k \in 1..Len(ls) |-> RStrip(ls[k])],
     has_start_tag |-> has_tag(ls, StartumlPrefix),
     has_end_tag |-> has_tag(ls, EndumlPrefix)]

\* The DiagramStructure parse_lines builds of lines and the groups found in
\* them; raw_lines is the list it was given.
MakeStructure(ls, gs) ==
    [participants |-> find_participants(ls),
     groups |-> gs,
     raw_lines |-> ls,
     has_start_tag |-> has_tag(ls, StartumlPrefix),
     has_end_tag |-> has_tag(ls, EndumlPrefix)]

(***************************************************************************)
(* manipulator.py: DiagramManipulator.  A call's outcome is a record:      *)
(*   raised           the exception class raised, "none" when it returns;  *)
(*   result           the list returned (empty when it raised);            *)
(*   returned_object  which list object that is: "new" for a list the call *)
(*                    built, "raw_lines" for structure.raw_lines itself;   *)
(*   raw_lines        the content of structure.raw_lines after the call.   *)
(***************************************************************************)
Returned(s, result) ==
    [raised |-> "none", result |-> result, returned_object |-> "new",
     raw_lines |-> s.raw_lines]

Raised(s, exception) ==
    [raised |-> exception, result |-> <<>>, returned_object |-> "none",
     raw_lines |-> s.raw_lines]

\* A faulty variant of FirstGroupNamed: the loop without its break, the last match taken.
FirstGroupNamed_NoBreak(gs, group_name) ==
    LET ks == {k \in 1..Len(gs) : gs[k].name = group_name}
    IN  IF ks = {} THEN 0 ELSE CHOOSE k \in ks : \A j \in ks : k >= j

\* for group in structure.groups: if group.name == group_name: ...; break
\* The position in gs of the group taken, 0 when target_group stays None.
FirstGroupNamed(gs, group_name) ==
    LET ks == {k \in 1..Len(gs) : gs[k].name = group_name}
    IN  IF ks = {} THEN 0 ELSE SetMin(ks)

\* A faulty variant of insert_after_group: insert_pos = target_group.end_line,
\* the block put before the end marker of the group.
insert_after_group_BeforeEnd(s, group_name, block_lines) ==
    LET k == FirstGroupNamed(s.groups, group_name)
        insert_pos == s.groups[k].end_line
    IN  IF k = 0 THEN Raised(s, "GroupNotFoundError")
        ELSE Returned(s, SliceTo(s.raw_lines, insert_pos) \o <<EmptyString>>
                         \o block_lines \o SliceFrom(s.raw_lines, insert_pos))

\* A faulty variant of insert_after_group: a missing group defaults to the end of the file.
insert_after_group_Default(s, group_name, block_lines) ==
    LET k == FirstGroupNamed(s.groups, group_name)
        insert_pos == IF k = 0 THEN Len(s.raw_lines) ELSE s.groups[k].end_line + 1
    IN  Returned(s, SliceTo(s.raw_lines, insert_pos) \o <<EmptyString>>
                    \o block_lines \o SliceFrom(s.raw_lines, insert_pos))

insert_after_group(s, group_name, block_lines) ==
    LET k == FirstGroupNamed(s.groups, group_name)
        insert_pos == s.groups[k].end_line + 1
    IN  IF k = 0 THEN Raised(s, "GroupNotFoundError")
        ELSE Returned(s, SliceTo(s.raw_lines, insert_pos) \o <<EmptyString>>
                         \o block_lines \o SliceFrom(s.raw_lines, insert_pos))

\* The loop of add_participant over the lines when there is no participant:
\* k is the index of the line read next, pos the insert_pos so far.
RECURSIVE HeaderScan(_, _, _)
HeaderScan(ls, k, pos) ==
    IF k >= Len(ls) THEN pos
    ELSE LET stripped == Strip(ls[k + 1])
         IN  IF StartsWith(stripped, StartumlPrefix) \/ StartsWith(stripped, TitlePrefix)
             THEN HeaderScan(ls, k + 1, k + 1)
             ELSE IF stripped # EmptyString /\ ~StartsWith(stripped, TitlePrefix)
             THEN pos
             ELSE HeaderScan(ls, k + 1, pos)

\* A faulty variant of HeaderInsertPos: the scan also stops at a blank line.
RECURSIVE HeaderScan_StopAtBlank(_, _, _)
HeaderScan_StopAtBlank(ls, k, pos) ==
    IF k >= Len(ls) THEN pos
    ELSE LET stripped == Strip(ls[k + 1])
         IN  IF StartsWith(stripped, StartumlPrefix) \/ StartsWith(stripped, TitlePrefix)
             THEN HeaderScan_StopAtBlank(ls, k + 1, k + 1)
             ELSE pos

HeaderInsertPos_StopAtBlank(ls) == HeaderScan_StopAtBlank(ls, 0, 0)

HeaderInsertPos(ls) == HeaderScan(ls, 0, 0)

\* if after_participant: (neither None nor the empty string)
\* What stands for a structure where none was built.
NoParse == <<>>

IsTruthy(opt) == opt # <<>> /\ opt[1] # EmptyString

\* A faulty variant of FirstParticipantMatching: only the alias is compared.
FirstParticipantMatching_AliasOnly(ps, after) ==
    LET ks == {k \in 1..Len(ps) : ps[k].alias = after}
    IN  IF ks = {} THEN 0 ELSE SetMin(ks)

\* for p in structure.participants: if p.alias == ... or p.name == ...: break
\* The position in ps of the participant taken, 0 when it stays None.
FirstParticipantMatching(ps, after) ==
    LET ks == {k \in 1..Len(ps) : ps[k].alias = after \/ ps[k].name = after}
    IN  IF ks = {} THEN 0 ELSE SetMin(ks)

\* A faulty variant of LastParticipant: structure.participants[0].
LastParticipant_First(ps) == ps[1]

\* last_participant = structure.participants[-1]
LastParticipant(ps) == ps[Len(ps)]

\* A faulty variant of add_participant: result = structure.raw_lines without copy(), so
\* the insertions go into the list of the structure, which is then returned.
add_participant_InPlace(s, participant_line, after_participant) ==
    LET pos == IF s.participants = <<>> THEN HeaderInsertPos(s.raw_lines)
               ELSE LastParticipant(s.participants).line_number + 1
        result == ListInsert(s.raw_lines, pos, participant_line)
    IN  [raised |-> "none", result |-> result, returned_object |-> "raw_lines",
         raw_lines |-> result]

add_participant(s, participant_line, after_participant) ==
    IF s.participants = <<>>
    THEN LET insert_pos == HeaderInsertPos(s.raw_lines)
         IN  Returned(s, ListInsert(ListInsert(s.raw_lines, insert_pos, EmptyString),
                                    insert_pos + 1, participant_line))
    ELSE IF IsTruthy(after_participant)
    THEN LET k == FirstParticipantMatching(s.participants, after_participant[1])
         IN  IF k = 0 THEN Raised(s, "ParticipantNotFoundError")
             ELSE Returned(s, ListInsert(s.raw_lines,
                                         s.participants[k].line_number + 1,
                                         participant_line))
    ELSE Returned(s, ListInsert(s.raw_lines,
                                LastParticipant(s.participants).line_number + 1,
                                participant_line))

remove_group(s, group_name) == Raised(s, "NotImplementedError")

replace_group(s, group_name, new_content) == Raised(s, "NotImplementedError")

\* indent = original_line[: len(original_line) - len(original_line.lstrip())]
Indent(original_line) ==
    SubSeq(original_line, 1, Len(original_line) - Len(LStrip(original_line)))

\* A faulty variant of preserve_indentation: `[indent + line for line in
\* new_content]`, blank lines indented too.
preserve_indentation_IndentAll(original_line, new_content) ==
    [k \in 1..Len(new_content) |-> Indent(original_line) \o new_content[k]]

preserve_indentation(original_line, new_content) ==
    [k \in 1..Len(new_content) |->
        IF Strip(new_content[k]) # EmptyString
        THEN Indent(original_line) \o new_content[k]
        ELSE new_content[k]]

(***************************************************************************)
(* validator.py: validate_structure.                                       *)
(* A message is the record of its mark ("passed" for the check mark,       *)
(* "failed" for the cross), its text and the name formatted into it.       *)
(* A result is [status, checks_passed, checks_failed, messages, warnings]. *)
(***************************************************************************)
\* x in [g.name for g in structure.groups]
InGroupNames(s, x) == \E k \in 1..Len(s.groups) : s.groups[k].name = x

\* A faulty variant of InParticipants: only participant_names is looked at.
InParticipants_NameOnly(s, x) ==
    \E k \in 1..Len(s.participants) : s.participants[k].name = x

\* x in participant_names or x in participant_aliases
InParticipants(s, x) ==
    \E k \in 1..Len(s.participants) :
        s.participants[k].name = x \/ s.participants[k].alias = x

NoChecks == [checks_passed |-> 0, checks_failed |-> 0, messages |-> <<>>]

\* One check counted: a message is appended and one counter goes up.
Passed(acc, text, x) ==
    [acc EXCEPT !.checks_passed = @ + 1,
                !.messages = Append(@, [mark |-> "passed", text |-> text, name |-> x])]

Failed(acc, text, x) ==
    [acc EXCEPT !.checks_failed = @ + 1,
                !.messages = Append(@, [mark |-> "failed", text |-> text, name |-> x])]

\* for required_group in required_groups, from item k on.
RECURSIVE CheckRequiredGroups(_, _, _, _)
CheckRequiredGroups(s, items, k, acc) ==
    IF k > Len(items) THEN acc
    ELSE CheckRequiredGroups(s, items, k + 1,
             IF InGroupNames(s, items[k])
             THEN Passed(acc, "Found required group: ", items[k])
             ELSE Failed(acc, "Missing required group: ", items[k]))

\* for required_participant in required_participants, from item k on.
RECURSIVE CheckRequiredParticipants(_, _, _, _)
CheckRequiredParticipants(s, items, k, acc) ==
    IF k > Len(items) THEN acc
    ELSE CheckRequiredParticipants(s, items, k + 1,
             IF InParticipants(s, items[k])
             THEN Passed(acc, "Found required participant: ", items[k])
             ELSE Failed(acc, "Missing required participant: ", items[k]))

\* for forbidden_group in forbidden_groups, from item k on.
RECURSIVE CheckForbiddenGroups(_, _, _, _)
CheckForbiddenGroups(s, items, k, acc) ==
    IF k > Len(items) THEN acc
    ELSE CheckForbiddenGroups(s, items, k + 1,
             IF InGroupNames(s, items[k])
             THEN Failed(acc, "Found forbidden group: ", items[k])
             ELSE Passed(acc, "Forbidden group not present: ", items[k]))

\* A faulty variant of OverallStatus: `else: status = PASS`, a validation
\* without checks passes.
OverallStatus_PassWithoutChecks(checks_passed, checks_failed) ==
    IF checks_failed > 0 THEN "FAIL" ELSE "PASS"

\* Determine overall status.
OverallStatus(checks_passed, checks_failed) ==
    IF checks_failed > 0 THEN "FAIL"
    ELSE IF checks_passed > 0 THEN "PASS"
    ELSE "SKIPPED"

\* The three lists are Optional: None is <<>>, a list l is <<l>>.
validate_structure(s, required_groups, required_participants, forbidden_groups) ==
    LET a1 == IF IsTruthy(required_groups)
              THEN CheckRequiredGroups(s, required_groups[1], 1, NoChecks)
              ELSE NoChecks
        a2 == IF IsTruthy(required_participants)
              THEN CheckRequiredParticipants(s, required_participants[1], 1, a1)
              ELSE a1
        a3 == IF IsTruthy(forbidden_groups)
              THEN CheckForbiddenGroups(s, forbidden_groups[1], 1, a2)
              ELSE a2
    IN  [status |-> OverallStatus(a3.checks_passed, a3.checks_failed),
         checks_passed |-> a3.checks_passed,
         checks_failed |-> a3.checks_failed,
         messages |-> a3.messages,
         warnings |-> <<>>]

(***************************************************************************)
(* Files: a text is the sequence of its characters, "\n" ending a line.    *)
(***************************************************************************)
\* '\n'.join(ls)
RECURSIVE Join(_)
Join(ls) ==
    IF ls = <<>> THEN <<>>
    ELSE IF Len(ls) = 1 THEN ls[1]
    ELSE ls[1] \o <<"\n">> \o Join(Tail(ls))

\* open(file_path, 'r'): universal newlines, "\r\n" and "\r" are read as "\n".
RECURSIVE UniversalNewlines(_, _)
UniversalNewlines(text, k) ==
    IF k > Len(text) THEN <<>>
    ELSE IF text[k] = "\r"
    THEN <<"\n">> \o UniversalNewlines(text,
                          IF k < Len(text) /\ text[k + 1] = "\n" THEN k + 2 ELSE k + 1)
    ELSE <<text[k]>> \o UniversalNewlines(text, k + 1)

\* f.readlines() from character k on: every line with the "\n" that ends it.
RECURSIVE ReadLinesFrom(_, _)
ReadLinesFrom(text, k) ==
    IF k > Len(text) THEN <<>>
    ELSE LET e == RunNotIn(text, k, {"\n"})
             stop == IF e > Len(text) THEN Len(text) ELSE e
         IN  <<SubSeq(text, k, stop)>> \o ReadLinesFrom(text, stop + 1)

readlines(text) == ReadLinesFrom(UniversalNewlines(text, 1), 1)

\* line.rstrip('\n\r')
RStripNewlines(line) == SubSeq(line, 1, LastNotIn(line, Len(line), {"\n", "\r"}))

\* lines = f.readlines(); lines = [line.rstrip('\n\r') for line in lines]
ReadFileLines(text) ==
    LET ls == readlines(text)
    IN  [k \in 1..Len(ls) |-> RStripNewlines(ls[k])]

\* parse_lines as a whole.
parse_lines(ls) == MakeStructure(ls, find_groups(ls))

\* parse_file of a file on disk: it raises when the file cannot be read.
parse_file(file) ==
    IF file.fault = "read"
    THEN [raised |-> "OSError", structure |-> NoParse]
    ELSE [raised |-> "none", structure |-> parse_lines(ReadFileLines(file.text))]

\* sub in text, for str
Contains(text, sub) == \E k \in 1..(Len(text) + 1) : HasAt(text, k, sub)

(***************************************************************************)
(* validator.py: validate_multiple_files, one file of the loop at a time.  *)
(***************************************************************************)
\* The result of the except branch: parsing the file raised.
ParseErrorResult(f, exception) ==
    [file_path |-> f, status |-> "FAIL", checks_passed |-> 0, checks_failed |-> 1,
     messages |-> <<[mark |-> "none", text |-> "Error parsing file: ",
                     name |-> exception]>>,
     warnings |-> <<>>]

\* The result for a file a filter excludes.
FilteredResult(f) ==
    [file_path |-> f, status |-> "SKIPPED", checks_passed |-> 0, checks_failed |-> 0,
     messages |-> <<[mark |-> "none", text |-> "File skipped due to filter criteria",
                     name |-> <<>>]>>,
     warnings |-> <<>>]

\* should_skip: a filter is given and the structure lacks its target.
ShouldSkip(s, only_if_has_participant, only_if_has_group) ==
    \/ IsTruthy(only_if_has_participant)
          /\ ~InParticipants(s, only_if_has_participant[1])
    \/ IsTruthy(only_if_has_group) /\ ~InGroupNames(s, only_if_has_group[1])

\* The body of `for file_path in files` for file f: its result.
ValidateOneFile(f, file, b) ==
    LET p == parse_file(file)
        v == validate_structure(p.structure, b.required_groups,
                                b.required_participants, <<>>)
    IN  IF p.raised # "none" THEN ParseErrorResult(f, p.raised)
        ELSE IF ShouldSkip(p.structure, b.only_if_has_participant, b.only_if_has_group)
        THEN FilteredResult(f)
        ELSE [file_path |-> f, status |-> v.status,
              checks_passed |-> v.checks_passed, checks_failed |-> v.checks_failed,
              messages |-> v.messages, warnings |-> v.warnings]

\* A faulty variant of CountResult: without the final else, a result that is
\* neither PASS nor FAIL is counted nowhere.
CountResult_NoElse(b, result) ==
    IF result.status = "PASS" THEN [b EXCEPT !.files_passed = @ + 1]
    ELSE IF result.status = "FAIL" THEN [b EXCEPT !.files_failed = @ + 1]
    ELSE b

\* files_passed += 1, files_failed += 1 or files_skipped += 1 for a result.
CountResult(b, result) ==
    IF result.status = "PASS" THEN [b EXCEPT !.files_passed = @ + 1]
    ELSE IF result.status = "FAIL" THEN [b EXCEPT !.files_failed = @ + 1]
    ELSE [b EXCEPT !.files_skipped = @ + 1]

\* The ValidationReport returned after the loop.
MakeReport(b) ==
    [total_files |-> Len(b.files), files_passed |-> b.files_passed,
     files_failed |-> b.files_failed, files_skipped |-> b.files_skipped,
     results |-> b.results]

(***************************************************************************)
(* The lines the model builds its inputs from.                             *)
(***************************************************************************)
StartumlLine == <<"@", "s", "t", "a", "r", "t", "u", "m", "l">>

TitleLine == <<"t", "i", "t", "l", "e", " ", "T">>

PartALine ==
    <<"p", "a", "r", "t", "i", "c", "i", "p", "a", "n", "t", " ", "A", " ",
      "a", "s", " ", "A">>

PartBobLine ==
    <<" ", " ", "p", "a", "r", "t", "i", "c", "i", "p", "a", "n", "t", " ",
      "\"", "B", "o", "b", "\"", " ", "a", "s", " ", "B", " ", "#", "r", "e", "d">>

GroupALine == <<"g", "r", "o", "u", "p", " ", "A">>

GroupBLine == <<" ", " ", "g", "r", "o", "u", "p", " ", "B">>

EndLine == <<"e", "n", "d">>

EndGroupLine == <<" ", " ", "e", "n", "d", " ", "g", "r", "o", "u", "p">>

BlankLine == <<>>

MsgLine == <<"A", " ", "-", ">", " ", "B">>

\* "  ": a line of whitespace only.
SpacesLine == <<" ", " ">>

\* The line add_participant is asked to add.
NewPartLine ==
    <<"p", "a", "r", "t", "i", "c", "i", "p", "a", "n", "t", " ", "C", " ",
      "a", "s", " ", "C">>

\* Diagram headers: markers, title, participant declarations.
HeaderPool ==
    {StartumlLine, TitleLine, BlankLine, PartALine, PartBobLine, MsgLine}

\* Diagram bodies: group markers around messages and declarations.
BodyPool ==
    {GroupALine, GroupBLine, EndLine, EndGroupLine, MsgLine, PartALine}

\* The names the calls look up: a group and a participant are named A and B,
\* Bob is the display name of B, nothing is named Z.
NameA == <<"A">>

NameB == <<"B">>

NameBob == <<"B", "o", "b">>

NameZ == <<"Z">>

GroupNames == {NameA, NameB, NameZ}

\* after_participant: None, "", an alias, a display name, an unknown name.
AfterChoices == {<<>>, <<(<<>>)>>, <<NameA>>, <<NameB>>, <<NameBob>>, <<NameZ>>}

\* required_groups and forbidden_groups: None, [], and lists of names.
GroupListChoices == {<<>>, <<(<<>>)>>, <<(<<NameA>>)>>, <<(<<NameZ>>)>>, <<(<<NameA, NameZ>>)>>}

\* required_participants: None, [], a display name, an alias, an unknown name.
ParticipantListChoices ==
    {<<>>, <<(<<>>)>>, <<(<<NameBob>>)>>, <<(<<NameB>>)>>, <<(<<NameZ>>)>>}

BlockChoices == {<<>>, <<MsgLine>>, <<GroupALine, EndLine>>}

RECURSIVE SeqsUpTo(_, _)
SeqsUpTo(S, n) ==
    IF n = 0 THEN {<<>>}
    ELSE LET shorter == SeqsUpTo(S, n - 1)
         IN  shorter \cup {Append(s, x) : s \in shorter, x \in S}

(***************************************************************************)
(* State.                                                                  *)
(***************************************************************************)
VARIABLES
    lines,        \* the list handed to parse_lines
    i,            \* find_groups: the index of the line read next
    groups,       \* find_groups: the groups emitted so far
    group_stack,  \* find_groups: the records of the groups still open
    pc,           \* "find_groups", "ready" (structure built), "called",
                  \* "raised" (the parser raised an exception)
    structure,    \* the DiagramStructure parse_lines returned
    call,         \* the last mutator call and its outcome
    disk,         \* the files a batch run matches: text, .bak sibling, fault
    batch         \* the batch run: its arguments, its loop and its results

vars == <<lines, i, groups, group_stack, pc, structure, call, disk, batch>>

\* No files, and no batch run.
NoDisk == <<>>

NoBatch == [op |-> "none"]

NoStructure ==
    [participants |-> <<>>, groups |-> <<>>, raw_lines |-> <<>>,
     has_start_tag |-> FALSE, has_end_tag |-> FALSE]

NoCall ==
    [op |-> "none", group_name |-> <<>>, block_lines |-> <<>>,
     participant_line |-> <<>>, after_participant |-> <<>>,
     original_line |-> <<>>, new_content |-> <<>>,
     raised |-> "none", result |-> <<>>, returned_object |-> "none"]

Init ==
    /\ lines \in SeqsUpTo(HeaderPool, MaxLen) \cup SeqsUpTo(BodyPool, MaxLen)
    /\ i = 0
    /\ groups = <<>>
    /\ group_stack = <<>>
    /\ pc = "find_groups"
    /\ structure = NoStructure
    /\ call = NoCall
    /\ disk = NoDisk
    /\ batch = NoBatch

\* The line the loop of find_groups is at.
CurLine == lines[i + 1]

InLoop == pc = "find_groups" /\ i < Len(lines)

\* if self.is_group_start(line): push
GroupStart ==
    /\ InLoop
    /\ is_group_start(CurLine)
    /\ group_stack' = Append(group_stack, GroupInfo(i, CurLine))
    /\ i' = i + 1
    /\ UNCHANGED <<disk, batch, lines, groups, pc, structure, call>>

\* elif self.is_group_end(line): the branch is run; an exception ends the
\* parse, otherwise the loop goes on to the next line.
EndStep ==
    /\ InLoop
    /\ ~is_group_start(CurLine)
    /\ is_group_end(CurLine)
    /\ LET r == EndBranch(groups, group_stack, i)
       IN  /\ groups' = r.groups
           /\ group_stack' = r.group_stack
           /\ pc' = IF r.raised = "none" THEN pc ELSE "raised"
           /\ i' = IF r.raised = "none" THEN i + 1 ELSE i
    /\ UNCHANGED <<disk, batch, lines, structure, call>>

\* elif self.is_group_end(line): if group_stack: pop and emit
GroupEnd == group_stack # <<>> /\ EndStep

\* elif self.is_group_end(line): with an empty stack nothing is done
StrayEnd == group_stack = <<>> /\ EndStep

\* elif group_stack: the line goes to the innermost open group
ContentLine ==
    /\ InLoop
    /\ ~is_group_start(CurLine)
    /\ ~is_group_end(CurLine)
    /\ group_stack # <<>>
    /\ group_stack' = StackAddContent(group_stack, CurLine)
    /\ i' = i + 1
    /\ UNCHANGED <<disk, batch, lines, groups, pc, structure, call>>

\* a line outside every group that is no marker: no branch is taken
OutsideLine ==
    /\ InLoop
    /\ ~is_group_start(CurLine)
    /\ ~is_group_end(CurLine)
    /\ group_stack = <<>>
    /\ i' = i + 1
    /\ UNCHANGED <<disk, batch, lines, groups, group_stack, pc, structure, call>>

\* find_groups returns groups; parse_lines builds the DiagramStructure, whose
\* raw_lines is the list it was given.
ParseLinesReturn ==
    /\ pc = "find_groups"
    /\ i = Len(lines)
    /\ structure' = MakeStructure(lines, FindGroupsReturn(groups, group_stack))
    /\ pc' = "ready"
    /\ UNCHANGED <<disk, batch, lines, i, groups, group_stack, call>>

\* The call record of an outcome.
CallOf(op, r) ==
    [NoCall EXCEPT !.op = op, !.raised = r.raised, !.result = r.result,
                   !.returned_object = r.returned_object]

\* What every mutator call leaves as the state: the outcome in call, and in
\* structure.raw_lines whatever the call left in that list.
Called(c, r) ==
    /\ pc = "ready"
    /\ call' = c
    /\ structure' = [structure EXCEPT !.raw_lines = r.raw_lines]
    /\ pc' = "called"
    /\ UNCHANGED <<disk, batch, lines, i, groups, group_stack>>

CallInsertAfterGroup ==
    \E g \in GroupNames, b \in BlockChoices :
        LET r == insert_after_group(structure, g, b)
        IN  Called([CallOf("insert_after_group", r) EXCEPT
                        !.group_name = g, !.block_lines = b], r)

CallAddParticipant ==
    \E a \in AfterChoices :
        LET r == add_participant(structure, NewPartLine, a)
        IN  Called([CallOf("add_participant", r) EXCEPT
                        !.participant_line = NewPartLine,
                        !.after_participant = a], r)

CallRemoveGroup ==
    \E g \in GroupNames :
        LET r == remove_group(structure, g)
        IN  Called([CallOf("remove_group", r) EXCEPT !.group_name = g], r)

CallReplaceGroup ==
    \E g \in GroupNames :
        LET r == replace_group(structure, g, <<MsgLine>>)
        IN  Called([CallOf("replace_group", r) EXCEPT
                        !.group_name = g, !.new_content = <<MsgLine>>], r)

\* new_content is a list of the caller's or structure.raw_lines itself.
CallPreserveIndentation ==
    \E o \in {GroupBLine, MsgLine} :
        \E c \in {<<MsgLine, BlankLine, SpacesLine>>, structure.raw_lines} :
            LET r == Returned(structure, preserve_indentation(o, c))
            IN  Called([CallOf("preserve_indentation", r) EXCEPT
                            !.original_line = o, !.new_content = c], r)

\* validate_structure is called on the parsed structure; it writes to nothing.
CallValidateStructure ==
    \E rg \in GroupListChoices, rp \in ParticipantListChoices,
       fg \in GroupListChoices :
        LET r == Returned(structure, validate_structure(structure, rg, rp, fg))
        IN  Called([op |-> "validate_structure",
                    required_groups |-> rg,
                    required_participants |-> rp,
                    forbidden_groups |-> fg,
                    raised |-> r.raised,
                    result |-> r.result,
                    returned_object |-> r.returned_object], r)

\* The caller drops the outcome and is free to call again.
Discard ==
    /\ pc = "called"
    /\ pc' = "ready"
    /\ call' = NoCall
    /\ UNCHANGED <<disk, batch, lines, i, groups, group_stack, structure>>

\* validate_multiple_files: one iteration of the loop over the files.
ValidateNextFile ==
    /\ batch.op = "validate_multiple_files"
    /\ batch.step = "loop"
    /\ batch.k <= Len(batch.files)
    /\ LET f == batch.files[batch.k]
           result == ValidateOneFile(f, disk[f], batch)
       IN  batch' = [CountResult(batch, result) EXCEPT
                        !.results = Append(@, result), !.k = @ + 1]
    /\ UNCHANGED <<disk, lines, i, groups, group_stack, pc, structure, call>>

\* validate_multiple_files: the return after the last file.
ValidateFilesReturn ==
    /\ batch.op = "validate_multiple_files"
    /\ batch.step = "loop"
    /\ batch.k > Len(batch.files)
    /\ batch' = [batch EXCEPT !.step = "returned", !.report = MakeReport(batch)]
    /\ UNCHANGED <<disk, lines, i, groups, group_stack, pc, structure, call>>

(***************************************************************************)
(* manipulator.py: FileProcessor.process_files, a file of the loop in      *)
(* steps: parse, filter, operation, backup, write.                         *)
(*   batch.k         the index in files of the file being handled;         *)
(*   batch.step      the statement of the loop body that runs next;        *)
(*   batch.disk0     the files as they were when the run began;            *)
(*   batch.invoked   the files the operation was called for;               *)
(*   batch.returned  the files the operation returned lines for;           *)
(*   batch.written   the line sequences written, by file.                  *)
(***************************************************************************)
\* The next iteration of `for file_path in files`.
NextFile(b) ==
    [b EXCEPT !.k = @ + 1, !.step = "parse", !.structure = NoStructure,
              !.modified_lines = <<>>]

\* A faulty variant of AfterError: the exception leaves the loop.
AfterError_Halt(b, f, exception) ==
    [b EXCEPT !.errors = Append(@, [file |-> f, error |-> exception]),
              !.step = "returned"]

\* except Exception: the error is recorded and the loop goes on.
AfterError(b, f, exception) ==
    NextFile([b EXCEPT !.errors = Append(@, [file |-> f, error |-> exception])])

\* results['skipped'].append(...); continue
AfterSkip(b, f, reason, text) ==
    NextFile([b EXCEPT !.skipped =
                  Append(@, [file |-> f, reason |-> [kind |-> reason, text |-> text]])])

\* results['processed'].append(str(file_path))
AfterProcessed(b, f) == NextFile([b EXCEPT !.processed = Append(@, f)])

\* A faulty variant of HasText: the text is looked for as a whole line.
HasText_WholeLine(s, text) == \E k \in 1..Len(s.raw_lines) : s.raw_lines[k] = text

\* skip_if_exists in '\n'.join(structure.raw_lines)
HasText(s, text) == Contains(Join(s.raw_lines), text)

\* The filters in the order of the code: the reason of the first one that
\* excludes the structure, or "none".
FilterReason(s, b) ==
    IF IsTruthy(b.skip_if_exists) /\ HasText(s, b.skip_if_exists[1])
    THEN [kind |-> "contains", text |-> b.skip_if_exists[1]]
    ELSE IF IsTruthy(b.only_if_has_participant)
            /\ ~InParticipants(s, b.only_if_has_participant[1])
    THEN [kind |-> "missing participant", text |-> b.only_if_has_participant[1]]
    ELSE IF IsTruthy(b.only_if_has_group) /\ ~InGroupNames(s, b.only_if_has_group[1])
    THEN [kind |-> "missing group", text |-> b.only_if_has_group[1]]
    ELSE [kind |-> "none", text |-> <<>>]

\* The operation cli.insert_after passes to process_files.
operation(s, b) == insert_after_group(s, b.after_group, b.block_lines)

\* A faulty variant of Overwrites: dry_run is not looked at.
Overwrites_Always(b) == TRUE

\* `if not self.dry_run`
Overwrites(b) == ~b.dry_run

\* The statement that follows a returned operation.
StepAfterOperation(b) ==
    IF b.create_backup /\ Overwrites(b) THEN "backup"
    ELSE IF Overwrites(b) THEN "write"
    ELSE "record"

\* A faulty variant of create_backup_file: the .bak is created empty.
create_backup_file_Touch(file) == [file EXCEPT !.bak = <<(<<>>)>>]

\* shutil.copy2(file_path, backup_path)
create_backup_file(file) == [file EXCEPT !.bak = <<file.text>>]

\* f.write('\n'.join(modified_lines)) on the file opened with 'w'.
WriteLines(file, modified_lines) == [file EXCEPT !.text = Join(modified_lines)]

\* What a failing open(file_path, 'w') or write leaves of the file: the file
\* as it was, or the file truncated.
FailedWrites(file) == {file, [file EXCEPT !.text = <<>>]}

\* process_files: structure = parser.parse_file(file_path)
ProcessParse ==
    /\ batch.op = "process_files"
    /\ batch.step = "parse"
    /\ batch.k <= Len(batch.files)
    /\ LET f == batch.files[batch.k]
           p == parse_file(disk[f])
       IN  batch' = IF p.raised # "none" THEN AfterError(batch, f, p.raised)
                    ELSE [batch EXCEPT !.structure = p.structure, !.step = "filter"]
    /\ UNCHANGED <<disk, lines, i, groups, group_stack, pc, structure, call>>

\* process_files: the three filters.
ProcessFilter ==
    /\ batch.op = "process_files"
    /\ batch.step = "filter"
    /\ LET f == batch.files[batch.k]
           reason == FilterReason(batch.structure, batch)
       IN  batch' = IF reason.kind # "none"
                    THEN AfterSkip(batch, f, reason.kind, reason.text)
                    ELSE [batch EXCEPT !.step = "operation"]
    /\ UNCHANGED <<disk, lines, i, groups, group_stack, pc, structure, call>>

\* process_files: modified_lines = operation(structure), and under dry_run
\* the rest of the iteration.
ProcessOperation ==
    /\ batch.op = "process_files"
    /\ batch.step = "operation"
    /\ LET f == batch.files[batch.k]
           r == operation(batch.structure, batch)
           invoked == [batch EXCEPT !.invoked = @ \cup {f}]
           returned == [invoked EXCEPT !.returned = @ \cup {f},
                                       !.modified_lines = r.result]
       IN  batch' = IF r.raised # "none" THEN AfterError(invoked, f, r.raised)
                    ELSE IF StepAfterOperation(batch) = "record"
                    THEN AfterProcessed(returned, f)
                    ELSE [returned EXCEPT !.step = StepAfterOperation(batch)]
    /\ UNCHANGED <<disk, lines, i, groups, group_stack, pc, structure, call>>

\* process_files: self.create_backup_file(file_path)
ProcessBackup ==
    /\ batch.op = "process_files"
    /\ batch.step = "backup"
    /\ LET f == batch.files[batch.k]
       IN  IF disk[f].fault = "backup"
           THEN /\ batch' = AfterError(batch, f, "OSError")
                /\ disk' = disk
           ELSE /\ batch' = [batch EXCEPT !.step = "write"]
                /\ disk' = [disk EXCEPT ![f] = create_backup_file(@)]
    /\ UNCHANGED <<lines, i, groups, group_stack, pc, structure, call>>

\* process_files: the file is opened and written, and the path is recorded
\* as processed.
ProcessWrite ==
    /\ batch.op = "process_files"
    /\ batch.step = "write"
    /\ LET f == batch.files[batch.k]
       IN  IF disk[f].fault = "write"
           THEN /\ batch' = AfterError(batch, f, "OSError")
                /\ \E file \in FailedWrites(disk[f]) : disk' = [disk EXCEPT ![f] = file]
           ELSE /\ batch' = AfterProcessed(
                                [batch EXCEPT !.written[f] = Append(@, batch.modified_lines)],
                                f)
                /\ disk' = [disk EXCEPT ![f] = WriteLines(@, batch.modified_lines)]
    /\ UNCHANGED <<lines, i, groups, group_stack, pc, structure, call>>

\* process_files: return results
ProcessReturn ==
    /\ batch.op = "process_files"
    /\ batch.step = "parse"
    /\ batch.k > Len(batch.files)
    /\ batch' = [batch EXCEPT !.step = "returned"]
    /\ UNCHANGED <<disk, lines, i, groups, group_stack, pc, structure, call>>

\* parse_lines alone.
NextParse ==
    \/ GroupStart
    \/ GroupEnd
    \/ StrayEnd
    \/ ContentLine
    \/ OutsideLine
    \/ ParseLinesReturn

Next ==
    \/ GroupStart
    \/ GroupEnd
    \/ StrayEnd
    \/ ContentLine
    \/ OutsideLine
    \/ ParseLinesReturn
    \/ CallInsertAfterGroup
    \/ CallAddParticipant
    \/ CallRemoveGroup
    \/ CallReplaceGroup
    \/ CallPreserveIndentation
    \/ Discard

Spec == Init /\ [][Next]_vars

(***************************************************************************)
(* parse_lines over inputs of group markers, up to MaxNest lines long.     *)
(***************************************************************************)
MaxNest == 6

NestPool == {GroupALine, GroupBLine, EndLine, MsgLine}

InitParse ==
    /\ lines \in SeqsUpTo(NestPool, MaxNest)
    /\ i = 0
    /\ groups = <<>>
    /\ group_stack = <<>>
    /\ pc = "find_groups"
    /\ structure = NoStructure
    /\ call = NoCall
    /\ disk = NoDisk
    /\ batch = NoBatch

SpecParse == InitParse /\ [][NextParse]_vars

(***************************************************************************)
(* parse_lines over inputs of markers and two different content lines, up  *)
(* to MaxContent lines long.                                               *)
(***************************************************************************)
MaxContent == 6

ContentPool == {GroupALine, EndLine, MsgLine, PartALine}

InitContent ==
    /\ lines \in SeqsUpTo(ContentPool, MaxContent)
    /\ i = 0
    /\ groups = <<>>
    /\ group_stack = <<>>
    /\ pc = "find_groups"
    /\ structure = NoStructure
    /\ call = NoCall
    /\ disk = NoDisk
    /\ batch = NoBatch

SpecContent == InitContent /\ [][NextParse]_vars

(***************************************************************************)
(* parse_lines, then validate_structure calls, over inputs up to MaxVal    *)
(* lines long.                                                             *)
(***************************************************************************)
MaxVal == 3

ValidatePool == {GroupALine, EndLine, PartBobLine}

InitValidate ==
    /\ lines \in SeqsUpTo(ValidatePool, MaxVal)
    /\ i = 0
    /\ groups = <<>>
    /\ group_stack = <<>>
    /\ pc = "find_groups"
    /\ structure = NoStructure
    /\ call = NoCall
    /\ disk = NoDisk
    /\ batch = NoBatch

NextValidate ==
    \/ GroupStart
    \/ GroupEnd
    \/ StrayEnd
    \/ ContentLine
    \/ OutsideLine
    \/ ParseLinesReturn
    \/ CallValidateStructure
    \/ Discard

SpecValidate == InitValidate /\ [][NextValidate]_vars

(***************************************************************************)
(* parse_lines, then preserve_indentation calls, over inputs up to         *)
(* MaxIndent lines long.                                                   *)
(***************************************************************************)
MaxIndent == 3

IndentPool == {GroupBLine, EndLine, MsgLine, SpacesLine}

InitIndent ==
    /\ lines \in SeqsUpTo(IndentPool, MaxIndent)
    /\ i = 0
    /\ groups = <<>>
    /\ group_stack = <<>>
    /\ pc = "find_groups"
    /\ structure = NoStructure
    /\ call = NoCall
    /\ disk = NoDisk
    /\ batch = NoBatch

NextIndent ==
    \/ GroupStart
    \/ GroupEnd
    \/ StrayEnd
    \/ ContentLine
    \/ OutsideLine
    \/ ParseLinesReturn
    \/ CallPreserveIndentation
    \/ Discard

SpecIndent == InitIndent /\ [][NextIndent]_vars

(***************************************************************************)
(* parse_lines, then insert_after_group calls whose result the properties  *)
(* parse again, over inputs up to MaxReparse lines long.                   *)
(***************************************************************************)
MaxReparse == 5

ReparsePool == {GroupALine, GroupBLine, EndLine, MsgLine}

InitReparse ==
    /\ lines \in SeqsUpTo(ReparsePool, MaxReparse)
    /\ i = 0
    /\ groups = <<>>
    /\ group_stack = <<>>
    /\ pc = "find_groups"
    /\ structure = NoStructure
    /\ call = NoCall
    /\ disk = NoDisk
    /\ batch = NoBatch

NextReparse ==
    \/ GroupStart
    \/ GroupEnd
    \/ StrayEnd
    \/ ContentLine
    \/ OutsideLine
    \/ ParseLinesReturn
    \/ CallInsertAfterGroup
    \/ Discard

SpecReparse == InitReparse /\ [][NextReparse]_vars

(***************************************************************************)
(* validate_multiple_files over MaxValFiles files.                         *)
(***************************************************************************)
MaxValFiles == 2

\* The texts of the files: a participant Bob and a group A, a group A alone,
\* a participant and no group.
TextFull == Join(<<PartBobLine, GroupALine, EndLine>>) \o <<"\n">>

TextGroupOnly == Join(<<GroupALine, EndLine>>)

TextNoGroup == Join(<<PartBobLine, MsgLine>>) \o <<"\n">>

\* No .bak sibling.
NoBak == <<>>

ValFileChoices ==
    {[text |-> t, fault |-> "none", bak |-> NoBak] :
         t \in {TextFull, TextGroupOnly, TextNoGroup}}
    \cup {[text |-> TextFull, fault |-> "read", bak |-> NoBak]}

\* required_groups: None, a name of the files, that name and an unknown one.
ValGroupLists == {<<>>, <<(<<NameA>>)>>, <<(<<NameA, NameZ>>)>>}

\* required_participants: None, an alias of the files.
ValParticipantLists == {<<>>, <<(<<NameB>>)>>}

\* The files glob() returned, in its order.
FileList(n) == [k \in 1..n |-> k]

NoReport == <<>>

InitValidateFiles ==
    /\ lines = <<>>
    /\ i = 0
    /\ groups = <<>>
    /\ group_stack = <<>>
    /\ pc = "batch"
    /\ structure = NoStructure
    /\ call = NoCall
    /\ disk \in [1..MaxValFiles -> ValFileChoices]
    /\ \E rg \in ValGroupLists, rp \in ValParticipantLists,
          oip \in {<<>>, <<NameB>>}, oig \in {<<>>, <<NameA>>} :
           batch = [op |-> "validate_multiple_files",
                    required_groups |-> rg,
                    required_participants |-> rp,
                    only_if_has_participant |-> oip,
                    only_if_has_group |-> oig,
                    files |-> FileList(MaxValFiles),
                    k |-> 1,
                    step |-> "loop",
                    results |-> <<>>,
                    files_passed |-> 0,
                    files_failed |-> 0,
                    files_skipped |-> 0,
                    report |-> NoReport]

NextValidateFiles ==
    \/ ValidateNextFile
    \/ ValidateFilesReturn

SpecValidateFiles == InitValidateFiles /\ [][NextValidateFiles]_vars

(***************************************************************************)
(* process_files with the insert_after_group operation over MaxFiles       *)
(* files matched by a pattern that does not match their .bak siblings.     *)
(***************************************************************************)
MaxFiles == 2

\* "->", a text of MsgLine.
ArrowText == <<"-", ">">>

\* A .bak sibling left by an earlier run.
OldBak == <<GroupALine>>

\* Files that can be read, copied and written, one of them with a .bak, and
\* files reading, copying or writing fails for.
FileChoices ==
    {[text |-> t, fault |-> "none", bak |-> NoBak] : t \in {TextFull, TextNoGroup}}
    \cup {[text |-> TextGroupOnly, fault |-> "none", bak |-> OldBak]}
    \cup {[text |-> TextFull, fault |-> x, bak |-> NoBak] : x \in {"read", "backup", "write"}}

\* skip_if_exists, only_if_has_participant, only_if_has_group.
NoFilters == <<(<<>>), (<<>>), (<<>>)>>

SkipOnly == <<(<<ArrowText>>), (<<>>), (<<>>)>>

GroupOnly == <<(<<>>), (<<>>), (<<NameA>>)>>

AllFilters == <<(<<ArrowText>>), (<<NameB>>), (<<NameA>>)>>

\* The filters and the block_lines of a run: an empty or a one-line block
\* file, a block that holds the skip_if_exists text where that is given.
RunChoices ==
    {<<NoFilters, (<<>>)>>, <<NoFilters, (<<MsgLine>>)>>, <<SkipOnly, (<<MsgLine>>)>>,
     <<GroupOnly, (<<>>)>>, <<AllFilters, (<<MsgLine>>)>>}

\* The state of process_files before its loop.
StartBatch(files, d, dry_run, create_backup, filters, block_lines) ==
    [op |-> "process_files",
     dry_run |-> dry_run,
     create_backup |-> create_backup,
     skip_if_exists |-> filters[1],
     only_if_has_participant |-> filters[2],
     only_if_has_group |-> filters[3],
     after_group |-> NameA,
     block_lines |-> block_lines,
     files |-> files,
     k |-> 1,
     step |-> "parse",
     structure |-> NoStructure,
     modified_lines |-> <<>>,
     processed |-> <<>>,
     skipped |-> <<>>,
     errors |-> <<>>,
     total |-> Len(files),
     disk0 |-> d,
     invoked |-> {},
     returned |-> {},
     written |-> [f \in DOMAIN d |-> <<>>]]

InitBatch ==
    /\ lines = <<>>
    /\ i = 0
    /\ groups = <<>>
    /\ group_stack = <<>>
    /\ pc = "batch"
    /\ structure = NoStructure
    /\ call = NoCall
    /\ disk \in [1..MaxFiles -> FileChoices]
    /\ \E dry_run \in BOOLEAN, create_backup \in BOOLEAN, run \in RunChoices :
           batch = StartBatch(FileList(MaxFiles), disk, dry_run, create_backup,
                              run[1], run[2])

NextBatch ==
    \/ ProcessParse
    \/ ProcessFilter
    \/ ProcessOperation
    \/ ProcessBackup
    \/ ProcessWrite
    \/ ProcessReturn

SpecBatch == InitBatch /\ [][NextBatch]_vars

(***************************************************************************)
(* The insert-after command run MaxRuns times with the same arguments,     *)
(* without dry_run, over files that can be read and written.               *)
(*   batch.run      the number of the run;                                 *)
(*   batch.start    the files before the first run;                        *)
(*   batch.history  the files and the results at the end of each run that  *)
(*                  is over.                                               *)
(***************************************************************************)
MaxRuns == 3

RerunFileChoices ==
    {[text |-> t, fault |-> "none", bak |-> NoBak] :
         t \in {TextFull, TextGroupOnly, TextNoGroup}}

\* The files and the results when a run returns.
Snapshot(b, d) ==
    [disk |-> d,
     processed |-> {b.processed[x] : x \in 1..Len(b.processed)},
     skipped |-> {b.skipped[x].file : x \in 1..Len(b.skipped)},
     errors |-> {b.errors[x].file : x \in 1..Len(b.errors)}]

InitRerun ==
    /\ lines = <<>>
    /\ i = 0
    /\ groups = <<>>
    /\ group_stack = <<>>
    /\ pc = "batch"
    /\ structure = NoStructure
    /\ call = NoCall
    /\ disk \in [1..MaxFiles -> RerunFileChoices]
    /\ \E create_backup \in BOOLEAN, filters \in {NoFilters, SkipOnly, AllFilters} :
           batch = StartBatch(FileList(MaxFiles), disk, FALSE, create_backup,
                              filters, <<MsgLine>>)
                   @@ [run |-> 1, start |-> disk, history |-> <<>>]

\* The command is run again: process_files starts over on the files as the
\* last run left them.
Rerun ==
    /\ batch.op = "process_files"
    /\ batch.step = "returned"
    /\ batch.run < MaxRuns
    /\ batch' = StartBatch(batch.files, disk, batch.dry_run, batch.create_backup,
                           <<batch.skip_if_exists, batch.only_if_has_participant,
                             batch.only_if_has_group>>,
                           batch.block_lines)
                 @@ [run |-> batch.run + 1, start |-> batch.start,
                     history |-> Append(batch.history, Snapshot(batch, disk))]
    /\ UNCHANGED <<disk, lines, i, groups, group_stack, pc, structure, call>>

NextRerun ==
    \/ NextBatch
    \/ Rerun

SpecRerun == InitRerun /\ [][NextRerun]_vars

(***************************************************************************)
(* parse_lines over lines of every shape the parser tells apart, up to     *)
(* MaxShape lines long.                                                    *)
(***************************************************************************)
MaxShape == 2

\* "    end  ": an end marker with whitespace on both sides.
EndTrailLine ==
    <<" ", " ", " ", " ", "e", "n", "d", " ", " ">>

\* "end note": begins with "end" and is no end marker.
EndNoteLine ==
    <<"e", "n", "d", " ", "n", "o", "t", "e">>

\* "group  A ": two spaces after the prefix and one after the name.
GroupWideLine ==
    <<"g", "r", "o", "u", "p", " ", " ", "A", " ">>

\* "group": the word alone, without the space of the prefix.
GroupBareLine ==
    <<"g", "r", "o", "u", "p">>

\* "groups x": begins with "group" and not with "group ".
GroupsLine ==
    <<"g", "r", "o", "u", "p", "s", " ", "x">>

\* "participant X": a declaration without `as <alias>`.
PartNoAliasLine ==
    <<"p", "a", "r", "t", "i", "c", "i", "p", "a", "n", "t", " ", "X">>

\* "x participant A as A": a declaration shape that does not begin the line.
PartInsideLine ==
    <<"x", " ", "p", "a", "r", "t", "i", "c", "i", "p", "a", "n", "t", " ",
      "A", " ", "a", "s", " ", "A">>

\* 'participant "Web User" as U_1': a quoted name with a space in it, no color.
PartUserLine ==
    <<"p", "a", "r", "t", "i", "c", "i", "p", "a", "n", "t", " ", "\"", "W",
      "e", "b", " ", "U", "s", "e", "r", "\"", " ", "a", "s", " ", "U", "_",
      "1">>

\* "participant A as A #": an alias followed by a `#` without a color word.
PartHashLine ==
    <<"p", "a", "r", "t", "i", "c", "i", "p", "a", "n", "t", " ", "A", " ",
      "a", "s", " ", "A", " ", "#">>

ShapePool ==
    {BlankLine, SpacesLine, MsgLine, EndLine, EndGroupLine, EndTrailLine,
     EndNoteLine, GroupALine, GroupBLine, GroupWideLine, GroupBareLine,
     GroupsLine, PartALine, PartBobLine, PartNoAliasLine, PartInsideLine,
     PartUserLine, PartHashLine}

InitShapes ==
    /\ lines \in SeqsUpTo(ShapePool, MaxShape)
    /\ i = 0
    /\ groups = <<>>
    /\ group_stack = <<>>
    /\ pc = "find_groups"
    /\ structure = NoStructure
    /\ call = NoCall
    /\ disk = NoDisk
    /\ batch = NoBatch

SpecShapes == InitShapes /\ [][NextParse]_vars

(***************************************************************************)
(* parse_lines run to its end: the for loop takes its next step whenever   *)
(* it has one, over inputs up to MaxTotal lines long.                      *)
(***************************************************************************)
MaxTotal == 5

TotalPool == {GroupBLine, EndGroupLine, BlankLine, PartBobLine}

InitTotal ==
    /\ lines \in SeqsUpTo(TotalPool, MaxTotal)
    /\ i = 0
    /\ groups = <<>>
    /\ group_stack = <<>>
    /\ pc = "find_groups"
    /\ structure = NoStructure
    /\ call = NoCall
    /\ disk = NoDisk
    /\ batch = NoBatch

\* One iteration of `for i, line in enumerate(lines)`.
LoopStep == GroupStart \/ GroupEnd \/ StrayEnd \/ ContentLine \/ OutsideLine

\* The return of parse_lines after the loop, named by what it does to pc.
ReturnStep == pc = "find_groups" /\ i = Len(lines) /\ pc' = "ready"

\* The interpreter goes on: an iteration that can be run is run, and after
\* the last one parse_lines returns.
SpecTotal ==
    InitTotal /\ [][NextParse]_vars /\ WF_vars(LoopStep) /\ WF_pc(ReturnStep)

(***************************************************************************)
(* Properties of the positional mutator.                                   *)
(***************************************************************************)
\* A call of op has returned or raised.
Did(op) == pc = "called" /\ call.op = op

\* The positions in structure.groups of the groups named name.
GroupsNamed(name) ==
    {k \in 1..Len(structure.groups) : structure.groups[k].name = name}

\* The positions in structure.participants of those whose alias or name is x.
ParticipantsMatching(x) ==
    {k \in 1..Len(structure.participants) :
        \/ structure.participants[k].alias = x
        \/ structure.participants[k].name = x}

\* l with the lines ins put in after its first n lines.
SplicedAt(l, n, ins) == SubSeq(l, 1, n) \o ins \o SubSeq(l, n + 1, Len(l))

\* C1: when some group has the name asked for, insert_after_group returns
\* raw_lines[0..e] ++ [""] ++ block_lines ++ raw_lines[e+1..], e the end_line of
\* the first group of structure.groups with that name; the result is
\* len(raw_lines) + 1 + len(block_lines) long and every original line keeps its
\* content and its place among the original lines.
C1_InsertAfterFirstNamedGroup ==
    (Did("insert_after_group") /\ GroupsNamed(call.group_name) # {}) =>
        LET raw == structure.raw_lines
            k == CHOOSE k \in GroupsNamed(call.group_name) :
                     \A j \in GroupsNamed(call.group_name) : k <= j
            e == structure.groups[k].end_line
            n == Len(call.block_lines)
        IN  /\ call.raised = "none"
            /\ call.result = SubSeq(raw, 1, e + 1) \o <<EmptyString>>
                             \o call.block_lines \o SubSeq(raw, e + 2, Len(raw))
            /\ Len(call.result) = Len(raw) + 1 + n
            /\ \A j \in 1..Len(raw) :
                   call.result[IF j <= e + 1 THEN j ELSE j + 1 + n] = raw[j]

\* C1 witness: two groups have the name, a block was inserted after the first
\* one, and lines follow the splice point.
C1_Witness ==
    /\ Did("insert_after_group")
    /\ call.raised = "none"
    /\ Cardinality(GroupsNamed(call.group_name)) = 2
    /\ call.block_lines # <<>>
    /\ \E k \in GroupsNamed(call.group_name) :
           structure.groups[k].end_line + 1 < Len(structure.raw_lines)

C3_AddParticipantAfterNamed ==
    (/\ Did("add_participant")
     /\ structure.participants # <<>>
     /\ call.after_participant # <<>>
     /\ ParticipantsMatching(call.after_participant[1]) # {}) =>
        LET raw == structure.raw_lines
            m == ParticipantsMatching(call.after_participant[1])
            k == CHOOSE k \in m : \A j \in m : k <= j
            at == structure.participants[k].line_number + 1
        IN  /\ call.raised = "none"
            /\ Len(call.result) = Len(raw) + 1
            /\ call.result[at + 1] = call.participant_line
            /\ \A j \in 1..Len(raw) :
                   call.result[IF j <= at THEN j ELSE j + 1] = raw[j]

\* C3 witness: after_participant is a display name that is no alias, two
\* participants carry it, and the first of them is not the last line.
C3_Witness ==
    /\ Did("add_participant")
    /\ call.raised = "none"
    /\ call.after_participant = <<NameBob>>
    /\ Cardinality(ParticipantsMatching(NameBob)) = 2
    /\ Len(structure.raw_lines) > structure.participants[1].line_number + 1

\* C4: with participants and no after_participant, add_participant inserts
\* participant_line at index last.line_number + 1, last the final element of
\* structure.participants, and adds nothing else.
C4_AddParticipantAfterLast ==
    (/\ Did("add_participant")
     /\ structure.participants # <<>>
     /\ call.after_participant = <<>>) =>
        LET raw == structure.raw_lines
            last == structure.participants[Len(structure.participants)]
        IN  /\ call.raised = "none"
            /\ call.result = SplicedAt(raw, last.line_number + 1,
                                       <<call.participant_line>>)

\* C4 witness: several participants, and lines after the last of them.
C4_Witness ==
    /\ Did("add_participant")
    /\ call.raised = "none"
    /\ call.after_participant = <<>>
    /\ Len(structure.participants) >= 2
    /\ structure.participants[Len(structure.participants)].line_number + 1
           < Len(structure.raw_lines)

\* A diagram-start marker line or a title line (by its trimmed content).
IsHeaderLine(line) ==
    \/ StartsWith(Strip(line), StartumlPrefix)
    \/ StartsWith(Strip(line), TitlePrefix)

\* A line at which the scan of the header stops.
IsStopLine(line) == Strip(line) # EmptyString /\ ~IsHeaderLine(line)

\* The number of lines scanned: up to the first stop line.
ScannedLines(raw) ==
    LET stops == {j \in 1..Len(raw) : IsStopLine(raw[j])}
    IN  IF stops = {} THEN Len(raw)
        ELSE (CHOOSE j \in stops : \A h \in stops : j <= h) - 1

\* One past the last scanned header line, 0 if there is none.
HeaderEnd(raw) ==
    LET hs == {j \in 1..ScannedLines(raw) : IsHeaderLine(raw[j])}
    IN  IF hs = {} THEN 0 ELSE CHOOSE j \in hs : \A h \in hs : j >= h

Without(l, j) == SubSeq(l, 1, j - 1) \o SubSeq(l, j + 1, Len(l))

\* C6 as claimed: an after_participant that equals no participant's alias or
\* name always makes add_participant raise ParticipantNotFoundError and return
\* no line sequence, whether or not the structure has participants.
C6_MissingParticipantAlwaysRaises ==
    (/\ Did("add_participant")
     /\ call.after_participant # <<>>
     /\ ParticipantsMatching(call.after_participant[1]) = {}) =>
        /\ call.raised = "ParticipantNotFoundError"
        /\ call.result = <<>>

\* C7 as claimed: every successful add_participant returns a sequence exactly
\* one line longer than raw_lines, and deleting the inserted participant_line
\* from it gives raw_lines back.
C7_SingleLineSplice ==
    (Did("add_participant") /\ call.raised = "none") =>
        /\ Len(call.result) = Len(structure.raw_lines) + 1
        /\ \E j \in 1..Len(call.result) :
               /\ call.result[j] = call.participant_line
               /\ Without(call.result, j) = structure.raw_lines

\* C7 as amended: a successful add_participant on a structure with participants
\* returns a sequence one line longer than raw_lines, and deleting the inserted
\* participant_line gives raw_lines back; on a structure without participants
\* it returns a sequence two lines longer, and deleting the inserted blank line
\* and the participant_line that follows it gives raw_lines back.
C7_SpliceOfOneOrTwoLines ==
    (Did("add_participant") /\ call.raised = "none") =>
        IF structure.participants # <<>>
        THEN /\ Len(call.result) = Len(structure.raw_lines) + 1
             /\ \E j \in 1..Len(call.result) :
                    /\ call.result[j] = call.participant_line
                    /\ Without(call.result, j) = structure.raw_lines
        ELSE /\ Len(call.result) = Len(structure.raw_lines) + 2
             /\ \E j \in 1..(Len(call.result) - 1) :
                    /\ call.result[j] = EmptyString
                    /\ call.result[j + 1] = call.participant_line
                    /\ Without(Without(call.result, j), j) = structure.raw_lines

\* C7 witness: the structure has no participant, and the two lines went between
\* a header line and a line of the body.
C7_Witness ==
    /\ Did("add_participant")
    /\ call.raised = "none"
    /\ structure.participants = <<>>
    /\ HeaderEnd(structure.raw_lines) >= 1
    /\ HeaderEnd(structure.raw_lines) < Len(structure.raw_lines)
    /\ Len(call.result) = Len(structure.raw_lines) + 2

\* C8: no call of insert_after_group, add_participant or preserve_indentation,
\* returning or raising, and no sequence of them, changes raw_lines, groups or
\* participants of the structure from what parse_lines built; and a call that
\* returns, returns a list that is not the list structure.raw_lines.
C8_MutatorsLeaveStructureAlone ==
    (pc \in {"ready", "called"}) =>
        /\ structure.raw_lines = lines
        /\ structure.groups = groups
        /\ structure.participants = find_participants(lines)
        /\ (/\ pc = "called"
            /\ call.op \in {"insert_after_group", "add_participant",
                            "preserve_indentation"}
            /\ call.raised = "none") => call.returned_object = "new"

\* C8 witness: add_participant returned for a structure with groups and
\* participants.
C8_Witness ==
    /\ Did("add_participant")
    /\ call.raised = "none"
    /\ structure.groups # <<>>
    /\ structure.participants # <<>>

\* C9 as claimed: for an existing group, remove_group returns raw_lines without
\* the lines start_line..end_line of the group, and replace_group returns
\* raw_lines with the lines strictly between the two markers replaced by
\* new_content; the lines outside the span are those of the input.
C9_RemoveAndReplaceGroup ==
    LET raw == structure.raw_lines
        m == GroupsNamed(call.group_name)
        g == structure.groups[CHOOSE k \in m : \A j \in m : k <= j]
    IN  /\ (Did("remove_group") /\ m # {}) =>
               /\ call.raised = "none"
               /\ call.result = SubSeq(raw, 1, g.start_line)
                                \o SubSeq(raw, g.end_line + 2, Len(raw))
        /\ (Did("replace_group") /\ m # {}) =>
               /\ call.raised = "none"
               /\ call.result = SubSeq(raw, 1, g.start_line + 1)
                                \o call.new_content
                                \o SubSeq(raw, g.end_line + 1, Len(raw))

(***************************************************************************)
(* Properties of the structural parser.                                    *)
(***************************************************************************)
\* The start lines of the groups that the end lines before index e closed.
ClosedBefore(e) ==
    {groups[y].start_line : y \in {z \in 1..Len(groups) : groups[z].end_line < e}}

\* The indices of the group-start lines before index e still open at e.
OpenAt(e) ==
    {b \in 0..(e - 1) : is_group_start(lines[b + 1]) /\ b \notin ClosedBefore(e)}

\* groups[x] lies strictly inside groups[y].
NestedIn(x, y) ==
    /\ groups[y].start_line < groups[x].start_line
    /\ groups[x].end_line < groups[y].end_line

\* C10: find_groups matches markers last in, first out and emits groups in pop
\* order: every group-end line read while a group is open closes the most
\* recently opened group that is still open; the groups are listed by strictly
\* increasing end_line, so a nested group stands before the group around it;
\* ["group A", "  group B", "end", "end"] gives B (1-2), then A (0-3).
C10_GroupsInPopOrder ==
    /\ \A x \in 1..Len(groups) :
           LET e == groups[x].end_line
           IN  /\ is_group_end(lines[e + 1])
               /\ OpenAt(e) # {}
               /\ \A b \in OpenAt(e) : b <= groups[x].start_line
               /\ groups[x].start_line \in OpenAt(e)
    /\ \A e \in 0..(i - 1) :
           (is_group_end(lines[e + 1]) /\ OpenAt(e) # {}) =>
               \E x \in 1..Len(groups) : groups[x].end_line = e
    /\ \A x, y \in 1..Len(groups) :
           /\ x < y => groups[x].end_line < groups[y].end_line
           /\ NestedIn(x, y) => x < y
    /\ (pc # "find_groups" /\ lines = <<GroupALine, GroupBLine, EndLine, EndLine>>) =>
           /\ Len(groups) = 2
           /\ groups[1].name = NameB
           /\ groups[1].start_line = 1 /\ groups[1].end_line = 2
           /\ groups[2].name = NameA
           /\ groups[2].start_line = 0 /\ groups[2].end_line = 3

\* C10 witness: find_groups has returned the two groups of the nested example.
C10_Witness ==
    /\ pc = "ready"
    /\ lines = <<GroupALine, GroupBLine, EndLine, EndLine>>
    /\ Len(structure.groups) = 2
    /\ NestedIn(1, 2)

(***************************************************************************)
(* Properties of find_groups and parse_lines.                              *)
(***************************************************************************)
\* The ranges of groups x and y of gs have no line in common.
DisjointIn(gs, x, y) ==
    gs[x].end_line < gs[y].start_line \/ gs[y].end_line < gs[x].start_line

\* The range of group x of gs lies strictly inside that of group y.
InsideIn(gs, x, y) ==
    gs[y].start_line < gs[x].start_line /\ gs[x].end_line < gs[y].end_line

\* C11: the groups found are properly nested: every group starts before it
\* ends, and the inclusive ranges [start_line, end_line] of two distinct groups
\* are disjoint or one lies strictly inside the other; in particular no two
\* groups share a start_line or an end_line.
C11_ProperNesting ==
    \A x, y \in 1..Len(groups) :
        /\ groups[x].start_line < groups[x].end_line
        /\ x # y =>
               /\ groups[x].start_line # groups[y].start_line
               /\ groups[x].end_line # groups[y].end_line
               /\ \/ DisjointIn(groups, x, y)
                  \/ InsideIn(groups, x, y)
                  \/ InsideIn(groups, y, x)

\* C11 witness: find_groups has returned a group inside another and a third
\* group beside them.
C11_Witness ==
    /\ pc = "ready"
    /\ \E x, y, z \in 1..Len(structure.groups) :
           /\ InsideIn(structure.groups, x, y)
           /\ DisjointIn(structure.groups, y, z)

\* The number of groups open before the line with index k of ls, counted from
\* the markers alone: a start line opens one, an end line closes one if any.
RECURSIVE Depth(_, _)
Depth(ls, k) ==
    IF k = 0 THEN 0
    ELSE IF is_group_start(ls[k]) THEN Depth(ls, k - 1) + 1
    ELSE IF is_group_end(ls[k]) /\ Depth(ls, k - 1) > 0 THEN Depth(ls, k - 1) - 1
    ELSE Depth(ls, k - 1)

\* The line with index e is a group-end line read with no group open.
IsStrayEnd(e) ==
    /\ ~is_group_start(lines[e + 1])
    /\ is_group_end(lines[e + 1])
    /\ Depth(lines, e) = 0

\* C12: a group-end line read while no group is open has no effect: nothing is
\* raised, no group ends at it, the stack is empty after it, and the groups
\* returned are those of the input with that line replaced by a line that is
\* no marker.
C12_StrayEndHasNoEffect ==
    /\ pc # "raised"
    /\ \A e \in 0..(i - 1) :
           IsStrayEnd(e) =>
               /\ \A x \in 1..Len(groups) : groups[x].end_line # e
               /\ (e = i - 1) => group_stack = <<>>
               /\ (pc = "ready") =>
                      structure.groups = find_groups([lines EXCEPT ![e + 1] = MsgLine])

\* C12 witness: find_groups has returned a group for an input that also holds
\* a stray end line.
C12_Witness ==
    /\ pc = "ready"
    /\ Len(structure.groups) > 0
    /\ \E e \in 0..(Len(lines) - 1) : IsStrayEnd(e)

\* The group opened by the start line with index b is closed by a later line:
\* the depth comes back to what it was before that line.
IsClosed(b) ==
    \E k \in (b + 2)..Len(lines) : Depth(lines, k) <= Depth(lines, b)

\* The indices of the group-start lines whose group is never closed.
UnclosedStarts ==
    {b \in 0..(Len(lines) - 1) : is_group_start(lines[b + 1]) /\ ~IsClosed(b)}

\* C13: a group that is never closed is never emitted and raises nothing:
\* every returned group ends at a group-end line, a group-start line has a
\* group exactly if a later end line closes it, and a group opened and closed
\* inside an unclosed group is still returned;
\* ["group A", "  group B", "end"] gives B (1-2) alone.
C13_UnclosedGroupNotEmitted ==
    /\ pc # "raised"
    /\ (pc = "ready") =>
           /\ \A x \in 1..Len(structure.groups) :
                  /\ structure.groups[x].end_line \in 0..(Len(lines) - 1)
                  /\ is_group_end(lines[structure.groups[x].end_line + 1])
           /\ \A b \in 0..(Len(lines) - 1) :
                  is_group_start(lines[b + 1]) =>
                      (IsClosed(b) <=>
                           \E x \in 1..Len(structure.groups) :
                               structure.groups[x].start_line = b)
           /\ (lines = <<GroupALine, GroupBLine, EndLine>>) =>
                  /\ Len(structure.groups) = 1
                  /\ structure.groups[1].name = NameB
                  /\ structure.groups[1].start_line = 1
                  /\ structure.groups[1].end_line = 2

\* C13 witness: find_groups has returned a group that lies inside a group
\* that is never closed.
C13_Witness ==
    /\ pc = "ready"
    /\ \E b \in UnclosedStarts :
           \E x \in 1..Len(structure.groups) : structure.groups[x].start_line > b

\* Line index k lies at the own level of group x of gs: strictly between its
\* markers, no marker itself, and outside the range of every group inside x.
IsOwnLine(gs, x, k) ==
    /\ gs[x].start_line < k /\ k < gs[x].end_line
    /\ ~is_group_start(lines[k + 1])
    /\ ~is_group_end(lines[k + 1])
    /\ \A y \in 1..Len(gs) :
           InsideIn(gs, y, x) => ~(gs[y].start_line <= k /\ k <= gs[y].end_line)

\* The own-level lines of group x of gs with index k or more, in input order.
RECURSIVE OwnLinesFrom(_, _, _)
OwnLinesFrom(gs, x, k) ==
    IF k >= gs[x].end_line THEN <<>>
    ELSE IF IsOwnLine(gs, x, k)
         THEN <<lines[k + 1]>> \o OwnLinesFrom(gs, x, k + 1)
         ELSE OwnLinesFrom(gs, x, k + 1)

\* C14: the content of a group holds its own level only: it is the lines
\* strictly between its start and its end, in input order and unchanged, that
\* are no group markers and lie in the range of no group nested in it; a line
\* is in the content of at most one group.
C14_ContentIsOwnLevel ==
    /\ \A x \in 1..Len(groups) :
           groups[x].content = OwnLinesFrom(groups, x, groups[x].start_line + 1)
    /\ \A x, y \in 1..Len(groups) :
           x # y =>
               \A k \in 0..(Len(lines) - 1) :
                   ~(IsOwnLine(groups, x, k) /\ IsOwnLine(groups, y, k))
    /\ (pc = "ready") => structure.groups = groups

\* C14 witness: find_groups has returned a group with two different lines of
\* content and a group nested in it.
C14_Witness ==
    /\ pc = "ready"
    /\ \E x, y \in 1..Len(structure.groups) :
           /\ InsideIn(structure.groups, y, x)
           /\ Len(structure.groups[x].content) = 2
           /\ structure.groups[x].content[1] # structure.groups[x].content[2]

\* C15: parsing keeps the lines as they are: no step of parse_lines changes
\* the list it was given, and the raw_lines of the structure it returns are
\* that list, line for line and character for character, blank lines and
\* leading and trailing whitespace included.
C15_RawLinesRoundTrip ==
    [][/\ lines' = lines
       /\ (pc' = "ready") =>
              /\ Len(structure'.raw_lines) = Len(lines)
              /\ \A k \in 1..Len(lines) : structure'.raw_lines[k] = lines[k]]_vars

\* C15 witness: parse_lines has returned for an input with a blank line and a
\* line that has whitespace on both sides.
C15_Witness ==
    /\ pc = "ready"
    /\ \E k \in 1..Len(structure.raw_lines) : structure.raw_lines[k] = BlankLine
    /\ \E k \in 1..Len(structure.raw_lines) :
           /\ LStrip(structure.raw_lines[k]) # structure.raw_lines[k]
           /\ RStrip(structure.raw_lines[k]) # structure.raw_lines[k]
           /\ Strip(structure.raw_lines[k]) # EmptyString

\* C16: parse_lines is total: on every input it raises nothing, reads the
\* lines in one forward pass (each step of the loop goes on to the next line,
\* and the result is built only after the last one), and in the end returns a
\* DiagramStructure.
C16_ParseLinesTotal ==
    /\ [](pc # "raised")
    /\ [][/\ pc = "find_groups"
          /\ \/ i < Len(lines) /\ i' = i + 1 /\ pc' = "find_groups"
             \/ i = Len(lines) /\ i' = i /\ pc' = "ready"]_vars
    /\ <>(pc = "ready")

\* C16 witness: parse_lines has returned for an input that ends inside a
\* group and holds an end line read with no group open.
C16_Witness ==
    /\ pc = "ready"
    /\ structure.raw_lines = lines
    /\ group_stack # <<>>
    /\ \E e \in 0..(Len(lines) - 1) : IsStrayEnd(e)

(***************************************************************************)
(* Properties of the line classifiers.                                     *)
(***************************************************************************)
\* "Web User", "U_1" and "red" as the parser returns them.
NameWebUser == <<"W", "e", "b", " ", "U", "s", "e", "r">>

AliasU1 == <<"U", "_", "1">>

ColorRed == <<"r", "e", "d">>

\* The lines of ShapePool of the form
\*   [whitespace] participant <name> as <alias> [#<color>] ...
DeclarationLines == {PartALine, PartBobLine, PartUserLine, PartHashLine}

\* What such a line declares: name, alias, color (absent: <<>>).
Declared(line) ==
    CASE line = PartALine    -> [name |-> NameA, alias |-> NameA, color |-> <<>>]
      [] line = PartBobLine  -> [name |-> NameBob, alias |-> NameB, color |-> <<ColorRed>>]
      [] line = PartUserLine -> [name |-> NameWebUser, alias |-> AliasU1, color |-> <<>>]
      [] line = PartHashLine -> [name |-> NameA, alias |-> NameA, color |-> <<>>]

\* C17: find_participants returns one Participant for each line of the form
\* [whitespace] participant <name> as <alias> [#<color>] and none for any other
\* line, a line that holds the declaration after other text included; the
\* entries stand in line order, line_number is the index of the line, name is
\* the quoted text without the quotes or the bare word, alias the identifier
\* after 'as', color the word after '#' without the '#' and absent when there
\* is none; two lines declaring one alias give two entries.
C17_OneParticipantPerDeclaration ==
    (pc = "ready") =>
        LET ps == structure.participants
        IN  /\ \A x, y \in 1..Len(ps) : x < y => ps[x].line_number < ps[y].line_number
            /\ \A k \in 0..(Len(lines) - 1) :
                   Cardinality({x \in 1..Len(ps) : ps[x].line_number = k})
                       = IF lines[k + 1] \in DeclarationLines THEN 1 ELSE 0
            /\ \A x \in 1..Len(ps) :
                   /\ ps[x].line_number \in 0..(Len(lines) - 1)
                   /\ ps[x].raw_line = lines[ps[x].line_number + 1]
                   /\ ps[x].name = Declared(ps[x].raw_line).name
                   /\ ps[x].alias = Declared(ps[x].raw_line).alias
                   /\ ps[x].color = Declared(ps[x].raw_line).color
            /\ (lines = <<PartHashLine, PartALine>>) =>
                   Len(ps) = 2 /\ ps[1].alias = ps[2].alias

\* C17 witness: find_participants has returned two participants, the second
\* one for an indented line with a quoted name and a color.
C17_Witness ==
    /\ pc = "ready"
    /\ Len(structure.participants) = 2
    /\ structure.participants[2].line_number = 1
    /\ structure.participants[2].name = NameBob
    /\ structure.participants[2].color = <<ColorRed>>

\* The groups found so far and the groups still open.
KnownGroups ==
    {[name |-> groups[x].name, start_line |-> groups[x].start_line] :
         x \in 1..Len(groups)}
    \cup {[name |-> group_stack[x].name, start_line |-> group_stack[x].start_line] :
              x \in 1..Len(group_stack)}

BlankBetween(line, j, k) ==
    \A x \in j..k : line[x] \in WhitespaceChars

\* line is whitespace, then p, then at least one more character that is no
\* whitespace: its trimmed content begins with p and goes on.
TrimmedBeginsWith(line, p) ==
    \E j \in 1..Len(line) :
        /\ BlankBetween(line, 1, j - 1)
        /\ HasAt(line, j, p)
        /\ \E x \in (j + Len(p))..Len(line) : line[x] \notin WhitespaceChars

\* line is whitespace, then p, then whitespace: its trimmed content is p.
TrimmedIs(line, p) ==
    \E j \in 1..Len(line) :
        /\ BlankBetween(line, 1, j - 1)
        /\ HasAt(line, j, p)
        /\ BlankBetween(line, j + Len(p), Len(line))

\* C19: the classification of markers ignores indentation and is exclusive:
\* a line is a group start exactly if its trimmed content begins with
\* "group ", a group end exactly if its trimmed content is "end" or
\* "end group", and never both; "  end group" and "    end  " are ends and no
\* starts, "group", "groups x" and "end note" are neither; the loop pushes a
\* group for a line exactly if the line is a start.
C19_MarkersByTrimmedContent ==
    \A k \in 1..Len(lines) :
        LET line == lines[k]
        IN  /\ is_group_start(line) <=> TrimmedBeginsWith(line, GroupPrefix)
            /\ is_group_end(line) <=>
                   TrimmedIs(line, EndLiteral) \/ TrimmedIs(line, EndGroupLiteral)
            /\ ~(is_group_start(line) /\ is_group_end(line))
            /\ is_group_start(line) <=>
                   line \in {GroupALine, GroupBLine, GroupWideLine}
            /\ is_group_end(line) <=>
                   line \in {EndLine, EndGroupLine, EndTrailLine}
            /\ (k <= i) =>
                   (is_group_start(line) <=>
                        \E g \in KnownGroups : g.start_line = k - 1)

\* C19 witness: the loop has read an indented "end group" line as the end of
\* the group an indented start line opened.
C19_Witness ==
    /\ pc = "ready"
    /\ lines = <<GroupBLine, EndGroupLine>>
    /\ Len(structure.groups) = 1
    /\ structure.groups[1].end_line = 1

(***************************************************************************)
(* Properties of the validator.                                            *)
(***************************************************************************)
\* The number of items of an Optional list, 0 for None.
ItemCount(opt) == IF opt = <<>> THEN 0 ELSE Len(opt[1])

\* C20: the verdict of validate_structure follows from its two counters:
\* FAIL exactly if checks_failed > 0, PASS exactly if checks_failed = 0 and
\* checks_passed > 0, SKIPPED exactly if no check ran, which is when every
\* requirement list is absent or empty; WARNING is never the verdict.
C20_VerdictByCounters ==
    Did("validate_structure") =>
        LET v == call.result
            checks == ItemCount(call.required_groups)
                      + ItemCount(call.required_participants)
                      + ItemCount(call.forbidden_groups)
        IN  /\ call.raised = "none"
            /\ v.status \in {"FAIL", "PASS", "SKIPPED"}
            /\ v.status # "WARNING"
            /\ v.status = "FAIL" <=> v.checks_failed > 0
            /\ v.status = "PASS" <=> (v.checks_failed = 0 /\ v.checks_passed > 0)
            /\ v.status = "SKIPPED" <=> checks = 0
            /\ v.checks_passed + v.checks_failed = checks

\* C20 witness: validate_structure has returned SKIPPED for a structure with
\* a group and a participant, asked with an empty list of required groups.
C20_Witness ==
    /\ Did("validate_structure")
    /\ call.result.status = "SKIPPED"
    /\ call.required_groups = <<(<<>>)>>
    /\ Len(structure.groups) > 0
    /\ Len(structure.participants) > 0

\* The items of an Optional list, none for None.
Items(opt) == IF opt = <<>> THEN <<>> ELSE opt[1]

\* The requirement entries of the call in the order they are checked, each
\* with its kind.
Entries ==
    [k \in 1..Len(Items(call.required_groups)) |->
        [kind |-> "required_group", name |-> Items(call.required_groups)[k]]]
    \o [k \in 1..Len(Items(call.required_participants)) |->
           [kind |-> "required_participant",
            name |-> Items(call.required_participants)[k]]]
    \o [k \in 1..Len(Items(call.forbidden_groups)) |->
           [kind |-> "forbidden_group", name |-> Items(call.forbidden_groups)[k]]]

\* The names of the groups, the names and the aliases of the participants.
GroupNameSet == {structure.groups[x].name : x \in 1..Len(structure.groups)}

ParticipantNameSet ==
    {structure.participants[x].name : x \in 1..Len(structure.participants)}
    \cup {structure.participants[x].alias : x \in 1..Len(structure.participants)}

\* The entry is met by the structure.
EntryHolds(e) ==
    CASE e.kind = "required_group"       -> e.name \in GroupNameSet
      [] e.kind = "required_participant" -> e.name \in ParticipantNameSet
      [] e.kind = "forbidden_group"      -> e.name \notin GroupNameSet

\* C21: every requirement entry of validate_structure is one check of its
\* own: a required group passes exactly if a group has the name, a required
\* participant exactly if a participant has it as name or alias, a forbidden
\* group exactly if no group has the name; messages holds one message per
\* entry, in order, naming the entry; checks_passed and checks_failed count
\* the entries that pass and fail, and their sum is the number of entries.
C21_OneCheckPerEntry ==
    Did("validate_structure") =>
        LET v == call.result
        IN  /\ Len(v.messages) = Len(Entries)
            /\ \A k \in 1..Len(Entries) :
                   /\ v.messages[k].name = Entries[k].name
                   /\ v.messages[k].mark = "passed" <=> EntryHolds(Entries[k])
                   /\ v.messages[k].mark = "failed" <=> ~EntryHolds(Entries[k])
            /\ v.checks_passed =
                   Cardinality({k \in 1..Len(Entries) : EntryHolds(Entries[k])})
            /\ v.checks_failed =
                   Cardinality({k \in 1..Len(Entries) : ~EntryHolds(Entries[k])})
            /\ v.checks_passed + v.checks_failed =
                   ItemCount(call.required_groups)
                   + ItemCount(call.required_participants)
                   + ItemCount(call.forbidden_groups)

\* C21 witness: validate_structure has returned for a list with a present
\* and an absent group and for a participant required by its alias.
C21_Witness ==
    /\ Did("validate_structure")
    /\ call.required_groups = <<(<<NameA, NameZ>>)>>
    /\ call.required_participants = <<(<<NameB>>)>>
    /\ call.result.checks_passed = 2
    /\ call.result.checks_failed = 1

(***************************************************************************)
(* Further properties of find_groups.                                      *)
(***************************************************************************)
\* The indices below n of the group-start lines and of the group-end lines.
StartsRead(n) == {k \in 0..(n - 1) : is_group_start(lines[k + 1])}

EndsRead(n) ==
    {k \in 0..(n - 1) : ~is_group_start(lines[k + 1]) /\ is_group_end(lines[k + 1])}

\* C28: the stack accounting of find_groups: after the first i lines have
\* been read, the groups emitted and the records on the stack together are as
\* many as the group-start lines read; the start_line of the stack records
\* grows strictly from bottom to top; every emitted group has
\* start_line < end_line <= index of the last line read; the groups returned
\* are at most as many as the start lines and as the end lines of the input.
C28_StackAccounting ==
    /\ Len(groups) + Len(group_stack) = Cardinality(StartsRead(i))
    /\ \A x, y \in 1..Len(group_stack) :
           x < y => group_stack[x].start_line < group_stack[y].start_line
    /\ \A x \in 1..Len(groups) :
           /\ groups[x].start_line < groups[x].end_line
           /\ groups[x].end_line <= i - 1
    /\ (pc = "ready") =>
           /\ Len(structure.groups) <= Cardinality(StartsRead(Len(lines)))
           /\ Len(structure.groups) <= Cardinality(EndsRead(Len(lines)))

\* C28 witness: the loop is inside the input with a group emitted and two
\* groups open.
C28_Witness ==
    /\ pc = "find_groups"
    /\ i < Len(lines)
    /\ Len(groups) > 0
    /\ Len(group_stack) = 2

(***************************************************************************)
(* Further properties of the manipulator.                                  *)
(***************************************************************************)
\* Every character of line is whitespace: the line is empty or blank.
IsBlank(line) == \A x \in 1..Len(line) : line[x] \in WhitespaceChars

\* p is the whitespace line begins with: line is p and then nothing or a
\* character that is no whitespace.
IsLeadingWhitespaceOf(p, line) ==
    /\ Len(p) <= Len(line)
    /\ SubSeq(line, 1, Len(p)) = p
    /\ IsBlank(p)
    /\ Len(p) < Len(line) => line[Len(p) + 1] \notin WhitespaceChars

\* C24: preserve_indentation returns a list as long as new_content in which
\* every line that is not blank is the leading whitespace of original_line
\* followed by the line as given, and every blank line is the line as given;
\* new_content is left as it was, also when it is structure.raw_lines.
C24_IndentNonBlankLines ==
    Did("preserve_indentation") =>
        LET r == call.result
            c == call.new_content
        IN  /\ call.raised = "none"
            /\ Len(r) = Len(c)
            /\ \A k \in 1..Len(c) :
                   /\ IsBlank(c[k]) => r[k] = c[k]
                   /\ ~IsBlank(c[k]) =>
                          \E n \in 0..Len(call.original_line) :
                              /\ IsLeadingWhitespaceOf(
                                     SubSeq(call.original_line, 1, n),
                                     call.original_line)
                              /\ r[k] = SubSeq(call.original_line, 1, n) \o c[k]
            /\ call.returned_object = "new"
            /\ structure.raw_lines = lines
            /\ c \in {<<MsgLine, BlankLine, SpacesLine>>, lines}

\* C24 witness: preserve_indentation has returned for an indented
\* original_line and a new_content with an empty line, a line of spaces and
\* a line of text.
C24_Witness ==
    /\ Did("preserve_indentation")
    /\ call.original_line = GroupBLine
    /\ call.new_content = <<MsgLine, BlankLine, SpacesLine>>
    /\ call.result[1] # MsgLine

\* No line of ls is a group marker.
NoMarkers(ls) ==
    \A k \in 1..Len(ls) : ~is_group_start(ls[k]) /\ ~is_group_end(ls[k])

\* A line number of the old structure in the result of an insert of n lines
\* after line e: the lines up to e stay, the lines after it move down.
Shifted(x, e, n) == IF x <= e THEN x ELSE x + n

\* C27: parsing the result of an insert agrees with the old structure: when
\* insert_after_group has returned for a block without group markers, the
\* groups of the returned lines have the names of the old groups in the old
\* order; with T the first group of the name asked for, a start_line or
\* end_line that was at most T.end_line is the same, and one that was greater
\* has grown by len(block_lines) + 1.
C27_ReparseAfterInsert ==
    (Did("insert_after_group") /\ call.raised = "none" /\ NoMarkers(call.block_lines)) =>
        LET old == structure.groups
            new == find_groups(call.result)
            t   == old[SetMin(GroupsNamed(call.group_name))]
            n   == Len(call.block_lines) + 1
        IN  /\ Len(new) = Len(old)
            /\ \A x \in 1..Len(old) :
                   /\ new[x].name = old[x].name
                   /\ new[x].start_line = Shifted(old[x].start_line, t.end_line, n)
                   /\ new[x].end_line = Shifted(old[x].end_line, t.end_line, n)

\* C27 witness: insert_after_group has returned for a block of one line and
\* a target group that lies inside another group, whose start_line stays and
\* whose end_line moves.
C27_Witness ==
    /\ Did("insert_after_group")
    /\ call.raised = "none"
    /\ call.block_lines = <<MsgLine>>
    /\ \E x \in 1..Len(structure.groups) :
           LET t == structure.groups[SetMin(GroupsNamed(call.group_name))]
           IN  /\ structure.groups[x].start_line < t.start_line
               /\ structure.groups[x].end_line > t.end_line

(***************************************************************************)
(* Properties of the batch runs.                                           *)
(***************************************************************************)
\* The structure parse_file builds of file f when the file can be read.
ParsedFile(f) == parse_lines(ReadFileLines(disk[f].text))

\* File f lacks a target the run filters by.
LacksTarget(f) ==
    \/ /\ batch.only_if_has_participant \notin {<<>>, <<EmptyString>>}
       /\ \A x \in 1..Len(ParsedFile(f).participants) :
              /\ ParsedFile(f).participants[x].name # batch.only_if_has_participant[1]
              /\ ParsedFile(f).participants[x].alias # batch.only_if_has_participant[1]
    \/ /\ batch.only_if_has_group \notin {<<>>, <<EmptyString>>}
       /\ \A x \in 1..Len(ParsedFile(f).groups) :
              ParsedFile(f).groups[x].name # batch.only_if_has_group[1]

\* The results so far that have the status.
ResultsWith(status) ==
    {x \in 1..Len(batch.results) : batch.results[x].status = status}

\* C22: validate_multiple_files yields one result per matched file, in the
\* order of the files: FAIL with checks_failed = 1 when reading or parsing the
\* file raises, SKIPPED when the file lacks the only_if_has_participant or the
\* only_if_has_group target, the verdict of validate_structure otherwise; in
\* the report len(results) = total_files, every counter is the number of
\* results with its status, and the three counters add up to total_files.
C22_OneResultPerFile ==
    (batch.op = "validate_multiple_files") =>
        /\ Len(batch.results) = batch.k - 1
        /\ \A x \in 1..Len(batch.results) :
               LET f == batch.files[x]
                   r == batch.results[x]
                   v == validate_structure(ParsedFile(f), batch.required_groups,
                                           batch.required_participants, <<>>)
               IN  /\ r.file_path = f
                   /\ IF disk[f].fault = "read"
                      THEN r.status = "FAIL" /\ r.checks_failed = 1
                      ELSE IF LacksTarget(f)
                      THEN r.status = "SKIPPED"
                      ELSE /\ r.status = v.status
                           /\ r.checks_passed = v.checks_passed
                           /\ r.checks_failed = v.checks_failed
                           /\ r.messages = v.messages
        /\ (batch.step = "returned") =>
               /\ batch.report.total_files = Len(batch.files)
               /\ batch.report.results = batch.results
               /\ Len(batch.report.results) = batch.report.total_files
               /\ batch.report.files_passed = Cardinality(ResultsWith("PASS"))
               /\ batch.report.files_failed = Cardinality(ResultsWith("FAIL"))
               /\ batch.report.files_skipped = Cardinality(ResultsWith("SKIPPED"))
               /\ batch.report.files_passed + batch.report.files_failed
                      + batch.report.files_skipped = batch.report.total_files

\* C22 witness: validate_multiple_files has returned a report with a file
\* that could not be read and a file a filter excluded.
C22_Witness ==
    /\ batch.op = "validate_multiple_files"
    /\ batch.step = "returned"
    /\ disk[batch.files[1]].fault = "read"
    /\ batch.results[1].status = "FAIL"
    /\ disk[batch.files[2]].fault = "none"
    /\ LacksTarget(batch.files[2])
    /\ batch.results[2].status = "SKIPPED"

\* The lines and the structure parse_file builds of each text a file of a
\* batch run starts with.
LinesOfText == [t \in {TextFull, TextGroupOnly, TextNoGroup} |-> ReadFileLines(t)]

ParseOfText == [t \in DOMAIN LinesOfText |-> parse_lines(LinesOfText[t])]

\* The structure parse_file built of file f as it was when the run began.
ParsedFile0(f) == ParseOfText[batch.disk0[f].text]

\* File f, as it was when the run began, is excluded by a filter of the run.
Excluded0(f) ==
    \/ /\ batch.skip_if_exists \notin {<<>>, <<EmptyString>>}
       /\ \E x \in 1..Len(ParsedFile0(f).raw_lines) :
              Contains(ParsedFile0(f).raw_lines[x], batch.skip_if_exists[1])
    \/ /\ batch.only_if_has_participant \notin {<<>>, <<EmptyString>>}
       /\ \A x \in 1..Len(ParsedFile0(f).participants) :
              /\ ParsedFile0(f).participants[x].name # batch.only_if_has_participant[1]
              /\ ParsedFile0(f).participants[x].alias # batch.only_if_has_participant[1]
    \/ /\ batch.only_if_has_group \notin {<<>>, <<EmptyString>>}
       /\ \A x \in 1..Len(ParsedFile0(f).groups) :
              ParsedFile0(f).groups[x].name # batch.only_if_has_group[1]

\* Handling file f raises: while reading, in the operation (no group named
\* after_group), while backing up or while writing.
Raises0(f) ==
    \/ batch.disk0[f].fault = "read"
    \/ /\ ~Excluded0(f)
       /\ \/ \A x \in 1..Len(ParsedFile0(f).groups) :
                 ParsedFile0(f).groups[x].name # batch.after_group
          \/ ~batch.dry_run /\ batch.create_backup /\ batch.disk0[f].fault = "backup"
          \/ ~batch.dry_run /\ batch.disk0[f].fault = "write"

\* The files of the entries of results['skipped'] or results['errors'].
FilesOf(entries) == {entries[x].file : x \in 1..Len(entries)}

\* The files of results['processed'].
ProcessedFiles == {batch.processed[x] : x \in 1..Len(batch.processed)}

\* The files whose iteration of the loop is over.
HandledFiles ==
    {batch.files[x] : x \in 1..(IF batch.step = "returned" THEN Len(batch.files)
                                ELSE batch.k - 1)}

\* C23: process_files handles the files one after another and records an
\* exception raised for a file in errors with the path of that file, then
\* goes on with the next file: at every moment each file handled so far is in
\* exactly one of processed, skipped and errors (in errors exactly when
\* something raised for it), no other file is in any of them, and when
\* process_files returns every matched file has been handled, so
\* len(processed) + len(skipped) + len(errors) = total.
C23_FailuresAreIsolated ==
    (batch.op = "process_files") =>
        /\ ProcessedFiles \cup FilesOf(batch.skipped) \cup FilesOf(batch.errors)
              = HandledFiles
        /\ Len(batch.processed) + Len(batch.skipped) + Len(batch.errors)
              = Cardinality(HandledFiles)
        /\ \A f \in HandledFiles :
               /\ f \in FilesOf(batch.errors) <=> Raises0(f)
               /\ f \in FilesOf(batch.skipped) <=>
                      batch.disk0[f].fault # "read" /\ Excluded0(f)
        /\ (batch.step = "returned") =>
               /\ HandledFiles = {batch.files[x] : x \in 1..Len(batch.files)}
               /\ Len(batch.processed) + Len(batch.skipped) + Len(batch.errors)
                      = batch.total

\* C23 witness: process_files has returned, something raised for the first
\* file and the second file was processed.
C23_Witness ==
    /\ batch.op = "process_files"
    /\ batch.step = "returned"
    /\ Len(batch.errors) = 1
    /\ batch.errors[1].file = batch.files[1]
    /\ batch.errors[1].error = "GroupNotFoundError"
    /\ batch.processed = <<batch.files[2]>>

\* The lines process_files wrote to file f last.
LastWritten(f) == batch.written[f][Len(batch.written[f])]

\* C25: with create_backup and without dry_run, process_files creates the
\* .bak of a file only after the operation has returned for that file and
\* while the file is still as it was when the run began, it writes the file
\* only when the .bak already holds that content, and so the .bak of every
\* processed file holds the complete content the file had before the run.
C25_BackupBeforeOverwrite ==
    /\ [](batch.op = "process_files" /\ batch.create_backup /\ ~batch.dry_run
             => \A f \in ProcessedFiles : disk[f].bak = <<batch.disk0[f].text>>)
    /\ [][batch.op = "process_files" /\ batch.create_backup /\ ~batch.dry_run
             => \A f \in DOMAIN disk :
                   /\ disk'[f].bak # disk[f].bak
                         => /\ f \in batch.returned
                            /\ f \notin ProcessedFiles
                            /\ batch.written[f] = <<>>
                            /\ disk[f].text = batch.disk0[f].text
                            /\ disk'[f].text = disk[f].text
                            /\ disk'[f].bak = <<batch.disk0[f].text>>
                   /\ disk'[f].text # disk[f].text \/ batch'.written[f] # batch.written[f]
                         => /\ f \in batch.returned
                            /\ disk[f].bak = <<batch.disk0[f].text>>
                            /\ disk'[f].bak = disk[f].bak]_vars

\* C25 witness: a file that had an older .bak has been processed with
\* create_backup; it is overwritten and its .bak holds what it held before.
C25_Witness ==
    /\ batch.op = "process_files"
    /\ batch.create_backup
    /\ ~batch.dry_run
    /\ \E f \in ProcessedFiles :
           /\ batch.disk0[f].bak = OldBak
           /\ disk[f].bak = <<batch.disk0[f].text>>
           /\ disk[f].text # batch.disk0[f].text
           /\ disk[f].text = Join(LastWritten(f))

\* C26: in process_files the content of a file changes, or its .bak is
\* created, only when dry_run is false, no filter excludes the file and the
\* operation has returned lines for it; the operation is never called for a
\* skipped file, and a skipped file, a file the operation raised for and,
\* under dry_run, every file are exactly as they were when the run began.
C26_ChangesOnlyWhenProcessed ==
    /\ [](batch.op = "process_files"
             => /\ \A f \in FilesOf(batch.skipped) :
                       f \notin batch.invoked /\ disk[f] = batch.disk0[f]
                /\ \A f \in batch.invoked \ batch.returned : disk[f] = batch.disk0[f]
                /\ batch.dry_run => disk = batch.disk0)
    /\ [][batch.op = "process_files"
             => \A f \in DOMAIN disk :
                   disk'[f] # disk[f]
                      => /\ ~batch.dry_run
                         /\ batch.disk0[f].fault # "read"
                         /\ ~Excluded0(f)
                         /\ f \in batch.returned]_vars

\* C26 witness: a run without dry_run has returned; its first file was
\* skipped and is as it was, its second file was processed and has changed.
C26_Witness ==
    /\ batch.op = "process_files"
    /\ batch.step = "returned"
    /\ ~batch.dry_run
    /\ batch.files[1] \in FilesOf(batch.skipped)
    /\ batch.files[1] \notin batch.invoked
    /\ disk[batch.files[1]] = batch.disk0[batch.files[1]]
    /\ batch.files[2] \in ProcessedFiles
    /\ disk[batch.files[2]].text # batch.disk0[batch.files[2]].text

\* C29: when process_files has written the lines M the operation returned
\* to a file, parse_file of the written file has raw_lines = M, also when M
\* ends in blank lines.
C29_WriteBackRoundTrip ==
    (batch.op = "process_files") =>
        \A f \in ProcessedFiles :
            (batch.written[f] # <<>> /\ disk[f].text = Join(LastWritten(f)))
                => parse_file(disk[f]).structure.raw_lines = LastWritten(f)

\* The snapshots of the runs that have returned, the current one included.
RunsOver ==
    batch.history \o (IF batch.step = "returned" THEN <<Snapshot(batch, disk)>> ELSE <<>>)

\* The text of file f after run r, before the first run for r = 0.
TextAfter(r, f) == IF r = 0 THEN batch.start[f].text ELSE RunsOver[r].disk[f].text

\* The runs that changed the text of file f.
ChangingRuns(f) == {r \in 1..Len(RunsOver) : TextAfter(r, f) # TextAfter(r - 1, f)}

\* skip_if_exists is a non-empty text inside a line of block_lines.
MarkerInBlock ==
    /\ batch.skip_if_exists \notin {<<>>, <<EmptyString>>}
    /\ \E x \in 1..Len(batch.block_lines) :
           Contains(batch.block_lines[x], batch.skip_if_exists[1])

\* C30: when skip_if_exists is a non-empty text inside a line of block_lines,
\* runs of process_files with the same insert_after_group operation, without
\* dry_run, change every matched file at most once; in every run after the
\* one that changed it the file is reported as skipped, and after every run
\* from the second on its text is what it was after the first run.
C30_InsertOnce ==
    (batch.op = "process_files" /\ ~batch.dry_run /\ MarkerInBlock) =>
        \A f \in DOMAIN disk :
            /\ Cardinality(ChangingRuns(f)) <= 1
            /\ \A r \in ChangingRuns(f) : \A later \in (r + 1)..Len(RunsOver) :
                   /\ f \in RunsOver[later].skipped
                   /\ TextAfter(later, f) = TextAfter(r, f)
            /\ \A later \in 2..Len(RunsOver) : TextAfter(later, f) = TextAfter(1, f)
            /\ batch.step = "parse" /\ batch.k = 1 /\ Len(RunsOver) > 0
                  => disk[f].text = TextAfter(1, f)

\* C30 witness: a third run has returned; the first run changed a file, the
\* second and the third run skipped it and left its text as it was.
C30_Witness ==
    /\ batch.op = "process_files"
    /\ MarkerInBlock
    /\ batch.step = "returned"
    /\ Len(RunsOver) >= 3
    /\ \E f \in DOMAIN disk :
           /\ ChangingRuns(f) = {1}
           /\ f \in RunsOver[1].processed
           /\ f \in RunsOver[2].skipped
           /\ f \in RunsOver[3].skipped
           /\ disk[f].text = TextAfter(1, f)

====
